---- MODULE Spec2Model ----
(***************************************************************************)
(* Ownership and authorization model of the NodeDash API: users, teams,   *)
(* the team_user association, and the six owner-carrying tables (devices, *)
(* flows, functions, integrations, labels, providers).  Every HTTP        *)
(* handler is one action; the response of the last request is kept in     *)
(* `resp` so that properties can speak about status codes.                *)
(***************************************************************************)
EXTENDS Integers, FiniteSets, Sequences, TLC

VARIABLES teams, next_team_id, rows, resp

\* flow graphs (nodes and edges JSON columns), the flows the last
\* delete_function saved, and the function ids that have history rows
VARIABLES flows, pruned, function_history

flow_vars == <<flows, pruned, function_history>>

\* the devices table with dev_eui and region, its serial, the dev_euis held
\* by the network server, the device creation that has committed its row and
\* not yet run the provider hook, and whether another request saw that row
VARIABLES devices, next_device_id, chirpstack, creating, seen

device_vars == <<devices, next_device_id, chirpstack, creating, seen>>

\* the history retention sweep: the rows of the five history tables, the clock
\* (datetime.utcnow) and the answer of the last cleanup request
VARIABLES history_rows, now, cleanup_result
history_vars == <<history_rows, now, cleanup_result>>

\* accounts and their verification: the users table keyed by email, the
\* emails that hold an unexpired verification code and reset code in Redis, the
\* users with an open MFA login session, the next secret pyotp hands out, and
\* the answer of the last authentication request
VARIABLES accounts, email_codes, reset_codes, mfa_sessions, next_secret, auth_resp
auth_vars == <<accounts, email_codes, reset_codes, mfa_sessions, next_secret, auth_resp>>

\* no account, no code, no session
auth_init ==
    /\ accounts = <<>>
    /\ email_codes = {}
    /\ reset_codes = {}
    /\ mfa_sessions = {}
    /\ next_secret = 1
    /\ auth_resp = [op |-> "", status |-> 0, body |-> ""]

\* the requests that have passed their checks and not yet written: each runs
\* in its own session, and nothing orders the writes of two of them
VARIABLES pending
race_init == pending = {}

\* the history entries of flows, functions, integrations and labels, each
\* with the id of the resource it belongs to, and the entry that the last
\* history-by-id request returned
VARIABLES entries, returned
entry_vars == <<entries, returned>>
entry_init ==
    /\ entries = {}
    /\ returned = [kind |-> "", id |-> 0, resource_id |-> 0]

\* the association table of labels and devices, as pairs <<label id, device
\* id>>, and the ids of the labels that the last GET /devices/{id}/labels
\* returned
VARIABLES label_devices, returned_labels
label_vars == <<label_devices, returned_labels>>
label_init ==
    /\ label_devices = {}
    /\ returned_labels = {}

ext_vars == <<auth_vars, pending, entry_vars, label_vars>>
ext_init == auth_init /\ race_init /\ entry_init /\ label_init

aux_vars == <<flow_vars, device_vars, history_vars, ext_vars>>
vars == <<teams, next_team_id, rows, resp, aux_vars>>

(***************************************************************************)
(* Bounds of the model.                                                    *)
(***************************************************************************)
MaxTeams == 2
MaxRows == 1

(***************************************************************************)
(* Population and input domains.                                           *)
(***************************************************************************)
\* users.id of the accounts; accounts are never deleted by any endpoint
Users == {1, 2, 3}
\* accounts created by scripts/create_admin_user.py (is_superuser=True)
SuperUsers == {3}
\* Python None of an Optional[int] / unset field of an update schema
None == -1
Unset == "unset"
UnsetIds == {None}
\* ids a request can name: 0 is a valid int that no row ever has
UserIdInputs == {0} \cup Users
TeamIdInputs == 0..MaxTeams
TeamPathIds == 1..MaxTeams
OwnerIdInputs == UserIdInputs \cup TeamIdInputs
\* user_ids of a TeamUpdate body: any list of accounts, a list naming no
\* account, or the field left unset
UserIdsInputs == (SUBSET Users) \cup {{0}, UnsetIds}
RowIdInputs == 1..MaxRows
TeamNames == {"a", "b"}
ResNames == {"a", "b"}
USER == "USER"
TEAM == "TEAM"
OwnerTypes == {USER, TEAM}
\* the five tables served by the team_id-parameterised endpoints
TeamIdKinds == {"device", "flow", "function", "integration", "label"}
Kinds == TeamIdKinds \cup {"provider"}
ProviderTypes == {"chirpstack", "email", "influxdb"}
NoRow == [kind |-> "none", id |-> 0, name |-> "", ptype |-> "", owner_id |-> None, owner_type |-> ""]

is_superuser(u) == u \in SuperUsers

(***************************************************************************)
(* crud/team.py                                                            *)
(***************************************************************************)
get_team(team_id) == team_id \in DOMAIN teams

get_team_by_name(name) == \E t \in DOMAIN teams : teams[t].name = name

is_user_in_team(team_id, user_id) ==
    IF ~get_team(team_id) THEN FALSE ELSE \E u \in teams[team_id].users : u = user_id

get_team_users(team_id) ==
    IF ~get_team(team_id) THEN {} ELSE teams[team_id].users

Table(kind) == {r \in rows : r.kind = kind}

has_team_resources(team_id) ==
    IF \E r \in Table("device") : r.owner_type = TEAM /\ r.owner_id = team_id THEN TRUE
    ELSE IF \E r \in Table("flow") : r.owner_type = TEAM /\ r.owner_id = team_id THEN TRUE
    ELSE IF \E r \in Table("function") : r.owner_type = TEAM /\ r.owner_id = team_id THEN TRUE
    ELSE IF \E r \in Table("integration") : r.owner_type = TEAM /\ r.owner_id = team_id THEN TRUE
    ELSE IF \E r \in Table("label") : r.owner_type = TEAM /\ r.owner_id = team_id THEN TRUE
    ELSE FALSE

(***************************************************************************)
(* core/auth.py: both checks return the HTTP status they end with         *)
(* (200 when they return True).                                            *)
(***************************************************************************)
\* fault: the direct-owner test compares owner_id without looking at owner_type
check_resource_permissions_untyped_owner(current_user, resource, action_name) ==
    IF resource = NoRow THEN 404
    ELSE IF is_superuser(current_user) THEN 200
    ELSE IF resource.owner_id = current_user THEN 200
    ELSE IF resource.owner_type = TEAM /\ is_user_in_team(resource.owner_id, current_user) THEN 200
    ELSE 403

check_resource_permissions(current_user, resource, action_name) ==
    IF resource = NoRow THEN 404
    ELSE IF is_superuser(current_user) THEN 200
    ELSE IF resource.owner_type = USER /\ resource.owner_id = current_user THEN 200
    ELSE IF resource.owner_type = TEAM /\ is_user_in_team(resource.owner_id, current_user) THEN 200
    ELSE 403

check_team_membership(current_user, team_id) ==
    IF is_superuser(current_user) THEN 200
    ELSE IF is_user_in_team(team_id, current_user) THEN 200
    ELSE 403

(***************************************************************************)
(* Rows of the owner-carrying tables.                                      *)
(***************************************************************************)
RowOf(rs, kind, id) ==
    IF \E r \in rs : r.kind = kind /\ r.id = id
    THEN CHOOSE r \in rs : r.kind = kind /\ r.id = id
    ELSE NoRow

get_row(kind, id) == RowOf(rows, kind, id)

get_row_by_name(kind, name) == \E r \in Table(kind) : r.name = name

\* the rows that requests created, as opposed to rows present from the start
CreatedRows == {r \in rows : r.id \in RowIdInputs}

\* primary key handed out by the database: a key no row of the table has
FreshId(kind) == CHOOSE i \in 1..(MaxRows + 1) : \A r \in Table(kind) : r.id # i

\* what is seen of a request: the endpoint, the authenticated user, the status
Response(op, actor, status) == [op |-> op, actor |-> actor, status |-> status]
Idle == Response("idle", 0, 0)

Init ==
    /\ teams = <<>>
    /\ next_team_id = 1
    /\ rows = {}
    /\ resp = Idle
    /\ flows = <<>>
    /\ pruned = {}
    /\ function_history = {}
    /\ devices = {}
    /\ next_device_id = 1
    /\ chirpstack = {}
    /\ creating = [db_device |-> NoRow, current_user |-> 0]
    /\ seen = FALSE
    /\ history_rows = {}
    /\ now = 0
    /\ cleanup_result = [status |-> 0, success |-> FALSE, deleted_counts |-> <<>>, raised |-> ""]
    /\ ext_init

(***************************************************************************)
(* api/endpoints/teams.py                                                  *)
(***************************************************************************)
create_team(current_user, name) ==
    /\ next_team_id <= MaxTeams
    /\ IF get_team_by_name(name)
       THEN /\ resp' = Response("create_team", current_user, 400)
            /\ UNCHANGED <<teams, next_team_id, rows>>
       ELSE /\ teams' = [t \in DOMAIN teams \cup {next_team_id} |->
                            IF t = next_team_id
                            THEN [name |-> name, users |-> {current_user}]
                            ELSE teams[t]]
            /\ next_team_id' = next_team_id + 1
            /\ resp' = Response("create_team", current_user, 200)
            /\ UNCHANGED rows

\* members set by crud.update_team: the users whose id is in user_ids
UsersWithIds(user_ids) == {u \in Users : u \in user_ids}

update_team(current_user, team_id, name, user_ids) ==
    IF ~get_team(team_id)
    THEN /\ resp' = Response("update_team", current_user, 404)
         /\ UNCHANGED <<teams, next_team_id, rows>>
    ELSE IF check_team_membership(current_user, team_id) # 200
    THEN /\ resp' = Response("update_team", current_user, 403)
         /\ UNCHANGED <<teams, next_team_id, rows>>
    ELSE IF name # Unset /\ \E t \in DOMAIN teams : t # team_id /\ teams[t].name = name
    THEN \* unique constraint on teams.name fails the commit
         /\ resp' = Response("update_team", current_user, 500)
         /\ UNCHANGED <<teams, next_team_id, rows>>
    ELSE /\ teams' = [teams EXCEPT ![team_id] =
                        [name |-> IF name = Unset THEN @.name ELSE name,
                         users |-> IF user_ids = UnsetIds THEN @.users ELSE UsersWithIds(user_ids)]]
         /\ resp' = Response("update_team", current_user, 200)
         /\ UNCHANGED <<next_team_id, rows>>

\* crud.delete_team: the team row and its team_user rows go
crud_delete_team(team_id) == [t \in DOMAIN teams \ {team_id} |-> teams[t]]

\* fault: the superuser gate is missing, membership alone lets a delete through
delete_team_without_superuser_gate(current_user, team_id) ==
    IF ~get_team(team_id)
    THEN /\ resp' = Response("delete_team", current_user, 404)
         /\ UNCHANGED <<teams, next_team_id, rows>>
    ELSE IF check_team_membership(current_user, team_id) # 200
    THEN /\ resp' = Response("delete_team", current_user, 403)
         /\ UNCHANGED <<teams, next_team_id, rows>>
    ELSE IF has_team_resources(team_id)
    THEN /\ resp' = Response("delete_team", current_user, 400)
         /\ UNCHANGED <<teams, next_team_id, rows>>
    ELSE /\ teams' = crud_delete_team(team_id)
         /\ resp' = Response("delete_team", current_user, 200)
         /\ UNCHANGED <<next_team_id, rows>>

\* fault: the last-member gate of remove_team_member is applied to deletion too
delete_team_with_last_member_gate(current_user, team_id) ==
    IF ~get_team(team_id)
    THEN /\ resp' = Response("delete_team", current_user, 404)
         /\ UNCHANGED <<teams, next_team_id, rows>>
    ELSE IF ~is_superuser(current_user)
    THEN /\ resp' = Response("delete_team", current_user, 403)
         /\ UNCHANGED <<teams, next_team_id, rows>>
    ELSE IF Cardinality(get_team_users(team_id)) <= 1
    THEN /\ resp' = Response("delete_team", current_user, 400)
         /\ UNCHANGED <<teams, next_team_id, rows>>
    ELSE IF has_team_resources(team_id)
    THEN /\ resp' = Response("delete_team", current_user, 400)
         /\ UNCHANGED <<teams, next_team_id, rows>>
    ELSE /\ teams' = crud_delete_team(team_id)
         /\ resp' = Response("delete_team", current_user, 200)
         /\ UNCHANGED <<next_team_id, rows>>

delete_team(current_user, team_id) ==
    IF ~get_team(team_id)
    THEN /\ resp' = Response("delete_team", current_user, 404)
         /\ UNCHANGED <<teams, next_team_id, rows>>
    ELSE IF ~is_superuser(current_user)
    THEN /\ resp' = Response("delete_team", current_user, 403)
         /\ UNCHANGED <<teams, next_team_id, rows>>
    ELSE IF check_team_membership(current_user, team_id) # 200
    THEN /\ resp' = Response("delete_team", current_user, 403)
         /\ UNCHANGED <<teams, next_team_id, rows>>
    ELSE IF has_team_resources(team_id)
    THEN /\ resp' = Response("delete_team", current_user, 400)
         /\ UNCHANGED <<teams, next_team_id, rows>>
    ELSE /\ teams' = crud_delete_team(team_id)
         /\ resp' = Response("delete_team", current_user, 200)
         /\ UNCHANGED <<next_team_id, rows>>

\* user_email names the account with that id, or no account (0)
add_team_member(current_user, team_id, user_email) ==
    IF ~get_team(team_id)
    THEN /\ resp' = Response("add_team_member", current_user, 404)
         /\ UNCHANGED <<teams, next_team_id, rows>>
    ELSE IF check_team_membership(current_user, team_id) # 200
    THEN /\ resp' = Response("add_team_member", current_user, 403)
         /\ UNCHANGED <<teams, next_team_id, rows>>
    ELSE IF user_email \notin Users
    THEN /\ resp' = Response("add_team_member", current_user, 404)
         /\ UNCHANGED <<teams, next_team_id, rows>>
    ELSE IF user_email = current_user
    THEN /\ resp' = Response("add_team_member", current_user, 400)
         /\ UNCHANGED <<teams, next_team_id, rows>>
    ELSE IF is_user_in_team(team_id, user_email)
    THEN /\ resp' = Response("add_team_member", current_user, 400)
         /\ UNCHANGED <<teams, next_team_id, rows>>
    ELSE /\ teams' = [teams EXCEPT ![team_id].users = @ \cup {user_email}]
         /\ resp' = Response("add_team_member", current_user, 204)
         /\ UNCHANGED <<next_team_id, rows>>

\* fault: the member count is compared with < instead of <=
remove_team_member_off_by_one(current_user, team_id, user_id) ==
    IF ~get_team(team_id)
    THEN /\ resp' = Response("remove_team_member", current_user, 404)
         /\ UNCHANGED <<teams, next_team_id, rows>>
    ELSE IF check_team_membership(current_user, team_id) # 200
    THEN /\ resp' = Response("remove_team_member", current_user, 403)
         /\ UNCHANGED <<teams, next_team_id, rows>>
    ELSE IF Cardinality(get_team_users(team_id)) < 1
    THEN /\ resp' = Response("remove_team_member", current_user, 400)
         /\ UNCHANGED <<teams, next_team_id, rows>>
    ELSE IF user_id \notin Users
    THEN /\ resp' = Response("remove_team_member", current_user, 404)
         /\ UNCHANGED <<teams, next_team_id, rows>>
    ELSE /\ teams' = [teams EXCEPT ![team_id].users = @ \ {user_id}]
         /\ resp' = Response("remove_team_member", current_user, 204)
         /\ UNCHANGED <<next_team_id, rows>>

remove_team_member(current_user, team_id, user_id) ==
    IF ~get_team(team_id)
    THEN /\ resp' = Response("remove_team_member", current_user, 404)
         /\ UNCHANGED <<teams, next_team_id, rows>>
    ELSE IF check_team_membership(current_user, team_id) # 200
    THEN /\ resp' = Response("remove_team_member", current_user, 403)
         /\ UNCHANGED <<teams, next_team_id, rows>>
    ELSE IF Cardinality(get_team_users(team_id)) <= 1
    THEN /\ resp' = Response("remove_team_member", current_user, 400)
         /\ UNCHANGED <<teams, next_team_id, rows>>
    ELSE IF user_id \notin Users
    THEN /\ resp' = Response("remove_team_member", current_user, 404)
         /\ UNCHANGED <<teams, next_team_id, rows>>
    ELSE /\ teams' = [teams EXCEPT ![team_id].users = @ \ {user_id}]
         /\ resp' = Response("remove_team_member", current_user, 204)
         /\ UNCHANGED <<next_team_id, rows>>

(***************************************************************************)
(* api/endpoints/{devices,flows,functions,integrations,labels}.py and     *)
(* their crud modules: the five handlers of each operation are the same   *)
(* code up to the table name, so each is one action with the table as a   *)
(* parameter.  `name` is the unique column of the table (dev_eui for      *)
(* devices).                                                               *)
(***************************************************************************)
\* Python truth value of an Optional[int] query parameter: `if team_id:`
Truthy(team_id) == team_id # None /\ team_id # 0

NewRow(kind, name, ptype, owner_id, owner_type) ==
    [kind |-> kind, id |-> FreshId(kind), name |-> name, ptype |-> ptype,
     owner_id |-> owner_id, owner_type |-> owner_type]

\* crud.<kind>.create_<kind>: owner assignment from the keyword arguments
crud_create(kind, name, owner_id, owner_type, team_id) ==
    IF owner_id # None /\ owner_type = USER
    THEN NewRow(kind, name, "", owner_id, USER)
    ELSE IF team_id # None
    THEN NewRow(kind, name, "", team_id, TEAM)
    ELSE NewRow(kind, name, "", None, USER)

\* crud.provider.get_providers(owner, provider_type="chirpstack") as the
\* device hook calls it
HookProviders(owner_id, owner_type) ==
    {p \in Table("provider") : p.owner_id = owner_id /\ p.owner_type = owner_type
                               /\ p.ptype = "chirpstack"}

\* outcomes of crud.device.create_device_provider_hook
HookOutcomes(row) ==
    IF row.kind # "device" \/ HookProviders(row.owner_id, row.owner_type) = {}
    THEN {"ok"}
    ELSE {"ok", "no_profile", "chirpstack_error"}

\* fault: the name is looked up among the rows of the requested owner only
create_resource_per_owner_names(current_user, kind, team_id, name) ==
    LET owner_id == IF Truthy(team_id) THEN team_id ELSE current_user
        owner_type == IF Truthy(team_id) THEN TEAM ELSE USER
    IN IF \E r \in Table(kind) : r.name = name /\ r.owner_id = owner_id /\ r.owner_type = owner_type
       THEN /\ resp' = Response("create", current_user, 400)
            /\ UNCHANGED <<teams, next_team_id, rows>>
       ELSE IF Truthy(team_id) /\ check_team_membership(current_user, team_id) # 200
       THEN /\ resp' = Response("create", current_user, 403)
            /\ UNCHANGED <<teams, next_team_id, rows>>
       ELSE /\ Cardinality(CreatedRows) < MaxRows
            /\ rows' = rows \cup {NewRow(kind, name, "", owner_id, owner_type)}
            /\ resp' = Response("create", current_user, 200)
            /\ UNCHANGED <<teams, next_team_id>>

create_resource(current_user, kind, team_id, name) ==
    IF get_row_by_name(kind, name)
    THEN /\ resp' = Response("create", current_user, 400)
         /\ UNCHANGED <<teams, next_team_id, rows>>
    ELSE IF Truthy(team_id) /\ check_team_membership(current_user, team_id) # 200
    THEN /\ resp' = Response("create", current_user, 403)
         /\ UNCHANGED <<teams, next_team_id, rows>>
    ELSE /\ Cardinality(CreatedRows) < MaxRows
         /\ LET row == IF Truthy(team_id)
                       THEN crud_create(kind, name, None, TEAM, team_id)
                       ELSE crud_create(kind, name, current_user, USER, None)
            IN \E outcome \in HookOutcomes(row) :
                  \/ /\ outcome = "ok"
                     /\ rows' = rows \cup {row}
                     /\ resp' = Response("create", current_user, 200)
                  \/ /\ outcome = "no_profile"
                     /\ rows' = rows \cup {row}
                     /\ resp' = Response("create", current_user, 500)
                  \/ /\ outcome = "chirpstack_error"
                     /\ rows' = rows
                     /\ resp' = Response("create", current_user, 500)
         /\ UNCHANGED <<teams, next_team_id>>

read_resource(current_user, kind, id) ==
    /\ resp' = Response("read", current_user, check_resource_permissions(current_user, get_row(kind, id), "access"))
    /\ UNCHANGED <<teams, next_team_id, rows>>

\* fault: the update writes the owner_type column's default along with the body
crud_update_resetting_owner(row, name) ==
    [row EXCEPT !.name = IF name = Unset THEN @ ELSE name, !.owner_type = USER]

\* crud.<kind>.update_<kind>: the fields set in the body are written
crud_update(row, name) == [row EXCEPT !.name = IF name = Unset THEN @ ELSE name]

update_resource(current_user, kind, id, team_id, name) ==
    LET row == get_row(kind, id)
        perm == check_resource_permissions(current_user, row, "update")
        moved == IF Truthy(team_id)
                 THEN [row EXCEPT !.owner_id = team_id, !.owner_type = TEAM]
                 ELSE row
    IN IF perm # 200
       THEN /\ resp' = Response("update", current_user, perm)
            /\ UNCHANGED <<teams, next_team_id, rows>>
       ELSE IF Truthy(team_id) /\ check_team_membership(current_user, team_id) # 200
       THEN /\ resp' = Response("update", current_user, 403)
            /\ UNCHANGED <<teams, next_team_id, rows>>
       ELSE IF name # Unset /\ \E r \in Table(kind) : r.id # id /\ r.name = name
       THEN \* unique constraint on the name column fails the commit
            /\ resp' = Response("update", current_user, 500)
            /\ UNCHANGED <<teams, next_team_id, rows>>
       ELSE /\ rows' = (rows \ {row}) \cup {crud_update(moved, name)}
            /\ resp' = Response("update", current_user, 200)
            /\ UNCHANGED <<teams, next_team_id>>

delete_resource(current_user, kind, id) ==
    LET row == get_row(kind, id)
        perm == check_resource_permissions(current_user, row, "delete")
    IN IF perm # 200
       THEN /\ resp' = Response("delete", current_user, perm)
            /\ UNCHANGED <<teams, next_team_id, rows>>
       ELSE /\ rows' = rows \ {row}
            /\ resp' = Response("delete", current_user, 200)
            /\ UNCHANGED <<teams, next_team_id>>

(***************************************************************************)
(* api/endpoints/providers.py and crud/provider.py                         *)
(***************************************************************************)
\* crud.provider.get_provider_by_owner: .first() of an unordered query
get_provider_by_owner(owner_id, owner_type) ==
    LET found == {p \in Table("provider") : p.owner_id = owner_id /\ p.owner_type = owner_type}
    IN IF found = {} THEN {NoRow} ELSE found

create_provider(current_user, owner_type, owner_id, name, ptype) ==
    IF owner_type = TEAM /\ check_team_membership(current_user, owner_id) # 200
    THEN /\ resp' = Response("create_provider", current_user, 403)
         /\ UNCHANGED <<teams, next_team_id, rows>>
    ELSE IF owner_type = USER /\ owner_id # current_user
    THEN /\ resp' = Response("create_provider", current_user, 403)
         /\ UNCHANGED <<teams, next_team_id, rows>>
    ELSE \E existing_provider \in get_provider_by_owner(owner_id, owner_type) :
         IF existing_provider # NoRow /\ existing_provider.name = name
         THEN /\ resp' = Response("create_provider", current_user, 400)
              /\ UNCHANGED <<teams, next_team_id, rows>>
         ELSE IF existing_provider # NoRow /\ existing_provider.ptype = ptype
         THEN /\ resp' = Response("create_provider", current_user, 400)
              /\ UNCHANGED <<teams, next_team_id, rows>>
         ELSE IF ptype \notin {"chirpstack", "email", "sms"}
         THEN /\ resp' = Response("create_provider", current_user, 400)
              /\ UNCHANGED <<teams, next_team_id, rows>>
         ELSE /\ Cardinality(CreatedRows) < MaxRows
              /\ rows' = rows \cup {NewRow("provider", name, ptype, owner_id, owner_type)}
              /\ resp' = Response("create_provider", current_user, 200)
              /\ UNCHANGED <<teams, next_team_id>>

update_provider(current_user, id, name) ==
    LET row == get_row("provider", id)
        perm == check_resource_permissions(current_user, row, "update")
    IN IF perm # 200
       THEN /\ resp' = Response("update_provider", current_user, perm)
            /\ UNCHANGED <<teams, next_team_id, rows>>
       ELSE /\ rows' = (rows \ {row}) \cup {crud_update(row, name)}
            /\ resp' = Response("update_provider", current_user, 200)
            /\ UNCHANGED <<teams, next_team_id>>

\* the response has left and the server takes the next request
respond ==
    /\ resp # Idle
    /\ resp' = Idle
    /\ UNCHANGED <<teams, next_team_id, rows, aux_vars>>

Next ==
    \/ /\ resp = Idle
       /\ UNCHANGED aux_vars
       /\ \E u \in Users, k \in TeamIdKinds, t \in {None} \cup TeamIdInputs, n \in ResNames :
             create_resource(u, k, t, n)
    \/ /\ resp = Idle
       /\ UNCHANGED aux_vars
       /\ \E u \in Users, k \in Kinds, i \in RowIdInputs : read_resource(u, k, i)
    \/ /\ resp = Idle
       /\ UNCHANGED aux_vars
       /\ \E u \in Users, k \in TeamIdKinds, i \in RowIdInputs, t \in {None} \cup TeamIdInputs,
             n \in ResNames \cup {Unset} : update_resource(u, k, i, t, n)
    \/ /\ resp = Idle
       /\ UNCHANGED aux_vars
       /\ \E u \in Users, k \in Kinds, i \in RowIdInputs : delete_resource(u, k, i)
    \/ /\ resp = Idle
       /\ UNCHANGED aux_vars
       /\ \E u \in Users, ot \in OwnerTypes, o \in OwnerIdInputs, n \in ResNames,
             pt \in ProviderTypes : create_provider(u, ot, o, n, pt)
    \/ /\ resp = Idle
       /\ UNCHANGED aux_vars
       /\ \E u \in Users, i \in RowIdInputs, n \in ResNames \cup {Unset} : update_provider(u, i, n)
    \/ /\ resp = Idle
       /\ UNCHANGED aux_vars
       /\ \E u \in Users, n \in TeamNames : create_team(u, n)
    \/ /\ resp = Idle
       /\ UNCHANGED aux_vars
       /\ \E u \in Users, t \in TeamPathIds, n \in TeamNames \cup {Unset},
             ids \in UserIdsInputs : update_team(u, t, n, ids)
    \/ /\ resp = Idle
       /\ UNCHANGED aux_vars
       /\ \E u \in Users, t \in TeamPathIds : delete_team(u, t)
    \/ /\ resp = Idle
       /\ UNCHANGED aux_vars
       /\ \E u \in Users, t \in TeamPathIds, e \in UserIdInputs : add_team_member(u, t, e)
    \/ /\ resp = Idle
       /\ UNCHANGED aux_vars
       /\ \E u \in Users, t \in TeamPathIds, i \in UserIdInputs : remove_team_member(u, t, i)
    \/ respond

Spec == Init /\ [][Next]_vars

(***************************************************************************)
(* crud/function.py delete_function and the flow graphs it rewrites.       *)
(* Flow nodes and edges are JSON lists of dicts (schemas/flow.py); a JSON  *)
(* value is kept with its Python type so that str() is a real conversion.  *)
(***************************************************************************)
\* nodes and edges stored in all flows together
MaxNodes == 3
MaxEdges == 2

PyInt(n) == [py |-> "int", n |-> n, s |-> ""]
PyStr(t) == [py |-> "str", n |-> 0, s |-> t]
PyNone == [py |-> "none", n |-> 0, s |-> ""]
DecimalDigits == <<"1", "2", "3">>

\* Python str() of a JSON value
str(v) ==
    IF v.py = "int" THEN DecimalDigits[v.n]
    ELSE IF v.py = "str" THEN v.s
    ELSE "None"

\* node["data"]: a dict holding entityId, or null
DataDict(v) == [py |-> "dict", entityId |-> v]
DataNull == [py |-> "none", entityId |-> PyNone]

NodeIds == {"n1", "n2"}
\* an edge may name a target that is no node of the flow
EdgeTargets == NodeIds \cup {"n3"}
\* type and data of the nodes a client stores
NodeShapes ==
    {[type |-> "function", data |-> DataDict(PyInt(1))],
     [type |-> "function", data |-> DataDict(PyStr("1"))],
     [type |-> "function", data |-> DataDict(PyInt(2))],
     [type |-> "device", data |-> DataDict(PyInt(1))],
     [type |-> "function", data |-> DataNull]}
FlowNodes == {[id |-> i, type |-> sh.type, data |-> sh.data] : i \in NodeIds, sh \in NodeShapes}
FlowEdges == [source : NodeIds, target : EdgeTargets]
FlowIds == {1, 2}
FunctionIdInputs == {1, 2}
\* the function's owner deletes it; the flows belong to others
FunctionOwner == 1
FunctionRow == [kind |-> "function", id |-> 1, name |-> "a", ptype |-> "",
                owner_id |-> FunctionOwner, owner_type |-> USER]

SeqsUpTo(S, n) == UNION {[1..k -> S] : k \in 0..n}

\* node.get("type") == "function" and
\* str(node.get("data", {}).get("entityId")) == str(db_function.id)
references_function(node, function_id) ==
    /\ node.type = "function"
    /\ str(node.data.entityId) = str(PyInt(function_id))

\* evaluating the test above raises AttributeError: data is not a dict
node_raises(node) == node.type = "function" /\ node.data.py # "dict"

\* fault: an edge is dropped only when its source is a removed node
prune_function_references_source_only(flow, function_id) ==
    LET function_nodes_to_remove ==
            {flow.nodes[i].id : i \in {j \in DOMAIN flow.nodes :
                                          references_function(flow.nodes[j], function_id)}}
        modified == function_nodes_to_remove # {}
    IN [nodes |-> SelectSeq(flow.nodes, LAMBDA node : ~references_function(node, function_id)),
        edges |-> IF modified
                  THEN SelectSeq(flow.edges, LAMBDA edge :
                           edge.source \notin function_nodes_to_remove)
                  ELSE flow.edges,
        modified |-> modified]

\* fault: the scan stops at the first node that references the function
prune_function_references_one_node(flow, function_id) ==
    LET hits == {j \in DOMAIN flow.nodes : references_function(flow.nodes[j], function_id)}
        first == IF hits = {} THEN 0 ELSE CHOOSE j \in hits : \A h \in hits : j <= h
        function_nodes_to_remove == IF hits = {} THEN {} ELSE {flow.nodes[first].id}
    IN [nodes |-> [i \in 1..(Len(flow.nodes) - (IF hits = {} THEN 0 ELSE 1)) |->
                      IF first = 0 \/ i < first THEN flow.nodes[i] ELSE flow.nodes[i + 1]],
        edges |-> SelectSeq(flow.edges, LAMBDA edge :
                      /\ edge.source \notin function_nodes_to_remove
                      /\ edge.target \notin function_nodes_to_remove),
        modified |-> hits # {}]

\* fault: only a flow whose first node references the function is pruned
prune_function_references_first_node(flow, function_id) ==
    LET hit(node) == references_function(node, function_id)
        modified == IF flow.nodes = <<>> THEN FALSE ELSE hit(flow.nodes[1])
        function_nodes_to_remove ==
            IF modified
            THEN {flow.nodes[i].id : i \in {j \in DOMAIN flow.nodes : hit(flow.nodes[j])}}
            ELSE {}
    IN [nodes |-> IF modified THEN SelectSeq(flow.nodes, LAMBDA node : ~hit(node))
                  ELSE flow.nodes,
        edges |-> SelectSeq(flow.edges, LAMBDA edge :
                      /\ edge.source \notin function_nodes_to_remove
                      /\ edge.target \notin function_nodes_to_remove),
        modified |-> modified]

\* the body of the loop over the flows: the nodes and edges it leaves and
\* whether it saved the flow
prune_function_references(flow, function_id) ==
    LET function_nodes_to_remove ==
            {flow.nodes[i].id : i \in {j \in DOMAIN flow.nodes :
                                          references_function(flow.nodes[j], function_id)}}
        modified == function_nodes_to_remove # {}
    IN [nodes |-> SelectSeq(flow.nodes, LAMBDA node : ~references_function(node, function_id)),
        edges |-> IF modified
                  THEN SelectSeq(flow.edges, LAMBDA edge :
                           /\ edge.source \notin function_nodes_to_remove
                           /\ edge.target \notin function_nodes_to_remove)
                  ELSE flow.edges,
        modified |-> modified]

\* DELETE /functions/{function_id}: permission check, then crud.delete_function
delete_function(current_user, function_id) ==
    LET function == get_row("function", function_id)
        perm == check_resource_permissions(current_user, function, "delete")
        after(fl) == prune_function_references(flows[fl], function_id)
    IN IF perm # 200
       THEN /\ resp' = Response("delete_function", current_user, perm)
            /\ UNCHANGED <<teams, next_team_id, rows, flow_vars>>
       ELSE IF \E fl \in DOMAIN flows : \E i \in DOMAIN flows[fl].nodes :
                  node_raises(flows[fl].nodes[i])
       THEN \* the exception leaves the session uncommitted
            /\ resp' = Response("delete_function", current_user, 500)
            /\ UNCHANGED <<teams, next_team_id, rows, flow_vars>>
       ELSE /\ flows' = [fl \in DOMAIN flows |->
                            [flows[fl] EXCEPT !.nodes = after(fl).nodes,
                                              !.edges = after(fl).edges]]
            /\ pruned' = {fl \in DOMAIN flows : after(fl).modified}
            /\ function_history' = function_history \ {function_id}
            /\ rows' = rows \ {function}
            /\ resp' = Response("delete_function", current_user, 200)
            /\ UNCHANGED <<teams, next_team_id>>

\* one function of user 1 with history rows; two flows of other owners
\* holding any nodes and edges within the bounds
FlowInit ==
    /\ teams = <<>>
    /\ next_team_id = 1
    /\ rows = {FunctionRow}
    /\ resp = Idle
    /\ pruned = {}
    /\ function_history = {FunctionRow.id}
    /\ devices = {}
    /\ next_device_id = 1
    /\ chirpstack = {}
    /\ creating = [db_device |-> NoRow, current_user |-> 0]
    /\ seen = FALSE
    /\ history_rows = {}
    /\ now = 0
    /\ cleanup_result = [status |-> 0, success |-> FALSE, deleted_counts |-> <<>>, raised |-> ""]
    /\ ext_init
    /\ \E ns \in SeqsUpTo(FlowNodes, MaxNodes), es \in SeqsUpTo(FlowEdges, MaxEdges) :
          \E k \in 0..Len(ns), l \in 0..Len(es) :
             flows = [fl \in FlowIds |->
                         IF fl = 1
                         THEN [owner_id |-> 2, owner_type |-> USER,
                               nodes |-> SubSeq(ns, 1, k), edges |-> SubSeq(es, 1, l)]
                         ELSE [owner_id |-> 3, owner_type |-> USER,
                               nodes |-> SubSeq(ns, k + 1, Len(ns)),
                               edges |-> SubSeq(es, l + 1, Len(es))]]

FlowNext ==
    /\ \E f \in FunctionIdInputs : delete_function(FunctionOwner, f)
    /\ UNCHANGED <<device_vars, history_vars, ext_vars>>

FlowSpec == FlowInit /\ [][FlowNext]_vars

(***************************************************************************)
(* api/endpoints/devices.py and crud/device.py: device creation with the   *)
(* provider hook, read and delete.  A creation is two steps, the request   *)
(* up to the commit of the row and the hook with the response, so that    *)
(* other requests can run in between.                                      *)
(***************************************************************************)
MaxDevices == 2

\* a dev_eui as typed by the client; stored ones are upper-cased
DevEuiInputs == {"AA", "Aa", "aa", "BB"}
upper(dev_eui) == IF dev_eui = "BB" THEN "BB" ELSE "AA"
lower(dev_eui) == IF dev_eui = "BB" THEN "bb" ELSE "aa"
Regions == {"EU868", "US915"}
\* regions for which the provider config names a device profile
ProfileRegions == {"EU868"}
DeviceActors == {1, 2}
DeviceIdInputs == 1..MaxDevices
\* user 1 owns an active ChirpStack provider, user 2 none
ProviderRow == [kind |-> "provider", id |-> 1, name |-> "a", ptype |-> "chirpstack",
                owner_id |-> 1, owner_type |-> USER]

\* no creation is between its commit and its hook
NoCreation == [db_device |-> NoRow, current_user |-> 0]

\* crud.device.get_device: the row or None
get_device(device_id) ==
    IF \E d \in devices : d.id = device_id
    THEN CHOOSE d \in devices : d.id = device_id
    ELSE NoRow

\* crud.device.get_device_by_dev_eui: the rows the final query can return
get_device_by_dev_eui(dev_eui) ==
    IF \E d \in devices : d.dev_eui = dev_eui
    THEN {d \in devices : d.dev_eui = dev_eui}
    ELSE {d \in devices : d.dev_eui = lower(dev_eui)}

\* the unique index on devices.dev_eui rejects the insert
dev_eui_unique_violation(dev_eui) == \E d \in devices : d.dev_eui = dev_eui

\* fault: the row is not committed before the hook runs
create_device_uncommitted(current_user, team_id, dev_eui, region) ==
    IF get_device_by_dev_eui(dev_eui) # {}
    THEN /\ resp' = Response("create_device", current_user, 400)
         /\ UNCHANGED <<teams, next_team_id, rows, device_vars>>
    ELSE IF Truthy(team_id) /\ check_team_membership(current_user, team_id) # 200
    THEN /\ resp' = Response("create_device", current_user, 403)
         /\ UNCHANGED <<teams, next_team_id, rows, device_vars>>
    ELSE /\ creating = NoCreation
         /\ next_device_id <= MaxDevices
         /\ creating' = [db_device |-> [kind |-> "device", id |-> next_device_id,
                                        dev_eui |-> upper(dev_eui), region |-> region,
                                        owner_id |-> current_user, owner_type |-> USER],
                         current_user |-> current_user]
         /\ next_device_id' = next_device_id + 1
         /\ UNCHANGED <<teams, next_team_id, rows, resp, devices, chirpstack, seen>>

\* POST /devices up to the commit in crud.device.create_device
create_device(current_user, team_id, dev_eui, region) ==
    IF get_device_by_dev_eui(dev_eui) # {}
    THEN /\ resp' = Response("create_device", current_user, 400)
         /\ seen' = (seen \/ \E d \in get_device_by_dev_eui(dev_eui) : d = creating.db_device)
         /\ UNCHANGED <<teams, next_team_id, rows, devices, next_device_id, chirpstack, creating>>
    ELSE IF Truthy(team_id) /\ check_team_membership(current_user, team_id) # 200
    THEN /\ resp' = Response("create_device", current_user, 403)
         /\ UNCHANGED <<teams, next_team_id, rows, device_vars>>
    ELSE IF dev_eui_unique_violation(upper(dev_eui))
    THEN /\ resp' = Response("create_device", current_user, 500)
         /\ UNCHANGED <<teams, next_team_id, rows, device_vars>>
    ELSE /\ creating = NoCreation
         /\ next_device_id <= MaxDevices
         /\ LET db_device == [kind |-> "device", id |-> next_device_id,
                              dev_eui |-> upper(dev_eui), region |-> region,
                              owner_id |-> IF Truthy(team_id) THEN team_id ELSE current_user,
                              owner_type |-> IF Truthy(team_id) THEN TEAM ELSE USER]
            IN /\ devices' = devices \cup {db_device}
               /\ creating' = [db_device |-> db_device, current_user |-> current_user]
         /\ next_device_id' = next_device_id + 1
         /\ seen' = FALSE
         /\ UNCHANGED <<teams, next_team_id, rows, resp, chirpstack>>

\* what the calls to the network server can do during the hook
ChirpstackOutcomes == {"created", "create_fails", "keys_fail"}

\* fault: the missing device profile is handled like a ChirpStack failure
create_device_provider_hook_profile_rollback(db_device) ==
    IF HookProviders(db_device.owner_id, db_device.owner_type) = {}
    THEN /\ resp' = Response("create_device", creating.current_user, 200)
         /\ UNCHANGED <<devices, chirpstack>>
    ELSE IF db_device.region \notin ProfileRegions
    THEN /\ devices' = {d \in devices : d.id # db_device.id}
         /\ resp' = Response("create_device", creating.current_user, 500)
         /\ UNCHANGED chirpstack
    ELSE \E outcome \in ChirpstackOutcomes :
            \/ /\ outcome = "created"
               /\ chirpstack' = chirpstack \cup {db_device.dev_eui}
               /\ resp' = Response("create_device", creating.current_user, 200)
               /\ UNCHANGED devices
            \/ /\ outcome = "create_fails"
               /\ devices' = {d \in devices : d.id # db_device.id}
               /\ resp' = Response("create_device", creating.current_user, 500)
               /\ UNCHANGED chirpstack
            \/ /\ outcome = "keys_fail"
               /\ chirpstack' = chirpstack \cup {db_device.dev_eui}
               /\ devices' = {d \in devices : d.id # db_device.id}
               /\ resp' = Response("create_device", creating.current_user, 500)

\* fault: the compensating delete is missing
create_device_provider_hook_no_rollback(db_device) ==
    IF HookProviders(db_device.owner_id, db_device.owner_type) = {}
    THEN /\ resp' = Response("create_device", creating.current_user, 200)
         /\ UNCHANGED <<devices, chirpstack>>
    ELSE IF db_device.region \notin ProfileRegions
    THEN /\ resp' = Response("create_device", creating.current_user, 500)
         /\ UNCHANGED <<devices, chirpstack>>
    ELSE \E outcome \in ChirpstackOutcomes :
            \/ /\ outcome = "created"
               /\ chirpstack' = chirpstack \cup {db_device.dev_eui}
               /\ resp' = Response("create_device", creating.current_user, 200)
               /\ UNCHANGED devices
            \/ /\ outcome = "create_fails"
               /\ resp' = Response("create_device", creating.current_user, 500)
               /\ UNCHANGED <<devices, chirpstack>>
            \/ /\ outcome = "keys_fail"
               /\ chirpstack' = chirpstack \cup {db_device.dev_eui}
               /\ resp' = Response("create_device", creating.current_user, 500)
               /\ UNCHANGED devices

\* crud.device.create_device_provider_hook on the committed row, and the
\* response of the creation
create_device_provider_hook(db_device) ==
    IF HookProviders(db_device.owner_id, db_device.owner_type) = {}
    THEN \* no active provider: the hook returns False
         /\ resp' = Response("create_device", creating.current_user, 200)
         /\ UNCHANGED <<devices, chirpstack>>
    ELSE IF db_device.region \notin ProfileRegions
    THEN \* ValueError raised before the try block
         /\ resp' = Response("create_device", creating.current_user, 500)
         /\ UNCHANGED <<devices, chirpstack>>
    ELSE \E outcome \in ChirpstackOutcomes :
            \/ /\ outcome = "created"
               /\ chirpstack' = chirpstack \cup {db_device.dev_eui}
               /\ resp' = Response("create_device", creating.current_user, 200)
               /\ UNCHANGED devices
            \/ /\ outcome = "create_fails"
               /\ devices' = {d \in devices : d.id # db_device.id}
               /\ resp' = Response("create_device", creating.current_user, 500)
               /\ UNCHANGED chirpstack
            \/ /\ outcome = "keys_fail"
               /\ chirpstack' = chirpstack \cup {db_device.dev_eui}
               /\ devices' = {d \in devices : d.id # db_device.id}
               /\ resp' = Response("create_device", creating.current_user, 500)

\* the second step of POST /devices: the hook runs and the response leaves
create_device_finish ==
    /\ creating # NoCreation
    /\ create_device_provider_hook(creating.db_device)
    /\ creating' = NoCreation
    /\ UNCHANGED <<teams, next_team_id, rows, next_device_id, seen>>

\* GET /devices/{device_id}
read_device(current_user, device_id) ==
    LET device == get_device(device_id)
        perm == check_resource_permissions(current_user, device, "access")
    IN /\ resp' = Response("read_device", current_user, perm)
       /\ seen' = (seen \/ (perm = 200 /\ device = creating.db_device))
       /\ UNCHANGED <<teams, next_team_id, rows, devices, next_device_id, chirpstack, creating>>

\* the try block of crud.device.delete_device: chirpstack.get_device takes no
\* region argument, so the call raises TypeError before any request is sent
ChirpstackDeleteOutcomes == {"type_error"}

\* fault: the failure of the network-server call is not caught
delete_device_propagating(current_user, device_id) ==
    LET db_device == get_device(device_id)
        perm == check_resource_permissions(current_user, db_device, "delete")
    IN IF perm # 200
       THEN /\ resp' = Response("delete_device", current_user, perm)
            /\ UNCHANGED <<teams, next_team_id, rows, device_vars>>
       ELSE \E outcome \in ChirpstackDeleteOutcomes :
               /\ resp' = Response("delete_device", current_user, 500)
               /\ UNCHANGED <<teams, next_team_id, rows, device_vars>>

\* DELETE /devices/{device_id}
delete_device(current_user, device_id) ==
    LET db_device == get_device(device_id)
        perm == check_resource_permissions(current_user, db_device, "delete")
    IN IF perm # 200
       THEN /\ resp' = Response("delete_device", current_user, perm)
            /\ UNCHANGED <<teams, next_team_id, rows, device_vars>>
       ELSE \E outcome \in ChirpstackDeleteOutcomes :
               \* except Exception: the error is printed, the row is deleted
               /\ devices' = devices \ {db_device}
               /\ resp' = Response("delete_device", current_user, 200)
               /\ UNCHANGED <<teams, next_team_id, rows, next_device_id, chirpstack,
                              creating, seen>>

DeviceInit ==
    /\ teams = <<>>
    /\ next_team_id = 1
    /\ rows = {ProviderRow}
    /\ resp = Idle
    /\ flows = <<>>
    /\ pruned = {}
    /\ function_history = {}
    /\ devices = {}
    /\ next_device_id = 1
    /\ chirpstack = {}
    /\ creating = NoCreation
    /\ seen = FALSE
    /\ history_rows = {}
    /\ now = 0
    /\ cleanup_result = [status |-> 0, success |-> FALSE, deleted_counts |-> <<>>, raised |-> ""]
    /\ ext_init

DeviceNext ==
    \/ /\ \E u \in DeviceActors, e \in DevEuiInputs, r \in Regions : create_device(u, None, e, r)
       /\ UNCHANGED <<flow_vars, history_vars, ext_vars>>
    \/ /\ create_device_finish
       /\ UNCHANGED <<flow_vars, history_vars, ext_vars>>
    \/ /\ \E u \in DeviceActors, i \in DeviceIdInputs : read_device(u, i)
       /\ UNCHANGED <<flow_vars, history_vars, ext_vars>>
    \/ /\ \E u \in DeviceActors, i \in DeviceIdInputs : delete_device(u, i)
       /\ UNCHANGED <<flow_vars, history_vars, ext_vars>>

DeviceSpec == DeviceInit /\ [][DeviceNext]_vars

(***************************************************************************)
(* Names of flows, functions, integrations and labels: the create, update  *)
(* and delete handlers above, started with one team and one row of a team  *)
(* already stored.                                                         *)
(***************************************************************************)
NamedKinds == {"flow", "function", "integration", "label"}
\* identifier of the row stored from the start
SeedId == MaxRows + 1
NameIdInputs == 1..SeedId

NameInit ==
    /\ teams = (1 :> [name |-> "a", users |-> {1}])
    /\ next_team_id = 2
    /\ \E k \in NamedKinds : rows = {[kind |-> k, id |-> SeedId, name |-> "a", ptype |-> "",
                                      owner_id |-> 1, owner_type |-> TEAM]}
    /\ resp = Idle
    /\ flows = <<>>
    /\ pruned = {}
    /\ function_history = {}
    /\ devices = {}
    /\ next_device_id = 1
    /\ chirpstack = {}
    /\ creating = NoCreation
    /\ seen = FALSE
    /\ history_rows = {}
    /\ now = 0
    /\ cleanup_result = [status |-> 0, success |-> FALSE, deleted_counts |-> <<>>, raised |-> ""]
    /\ ext_init

NameNext ==
    \/ /\ \E u \in Users, k \in NamedKinds, t \in {None, 1}, n \in ResNames :
             create_resource(u, k, t, n)
       /\ UNCHANGED aux_vars
    \/ /\ \E u \in Users, k \in NamedKinds, i \in NameIdInputs, t \in {None, 1},
             n \in ResNames \cup {Unset} : update_resource(u, k, i, t, n)
       /\ UNCHANGED aux_vars
    \/ /\ \E u \in Users, k \in NamedKinds, i \in NameIdInputs : delete_resource(u, k, i)
       /\ UNCHANGED aux_vars

NameSpec == NameInit /\ [][NameNext]_vars

(***************************************************************************)
(* History retention: POST /cleanup-history and the rows it sweeps.        *)
(* Time is counted in ticks of half a day.                                 *)
(***************************************************************************)
MaxTime == 3
MaxHistory == 3

\* timedelta(days = 1), in ticks
DayTicks == 2
\* datetime.min, in ticks: an earlier cutoff cannot be represented
DateMin == -4
RetentionInputs == {-1, 0, 1, 4}
ApiKeys == {"secret", "wrong"}
SECRET_KEY == "secret"

\* the tables in the order in which cleanup_history_data sweeps them
HistoryTables ==
    <<"device_history", "flow_history", "function_history", "integration_history",
      "label_history">>
HistoryTableNames == {HistoryTables[i] : i \in DOMAIN HistoryTables}
HistoryTable(t) == {r \in history_rows : r.table = t}
NoResult == [status |-> 0, success |-> FALSE, deleted_counts |-> <<>>, raised |-> ""]

\* the answer of a request that ended in an unhandled exception
Raised(exception) ==
    [status |-> 500, success |-> FALSE, deleted_counts |-> <<>>, raised |-> exception]

\* the clock advances
Tick ==
    /\ now < MaxTime
    /\ now' = now + 1
    /\ UNCHANGED <<history_rows, cleanup_result>>

\* create_<kind>_history: a row stamped with the current time is committed
create_history(t) ==
    /\ Cardinality(history_rows) < MaxHistory
    /\ LET id == CHOOSE i \in 1..MaxHistory : ~\E r \in HistoryTable(t) : r.id = i
       IN history_rows' = history_rows \cup {[table |-> t, id |-> id, timestamp |-> now]}
    /\ UNCHANGED <<now, cleanup_result>>

\* the rows of table t that one bulk delete of the sweep removes
old_rows(t, cutoff_date) == {r \in HistoryTable(t) : r.timestamp < cutoff_date}

\* fault: a row exactly at the cutoff is removed as well
old_rows_inclusive(t, cutoff_date) == {r \in HistoryTable(t) : r.timestamp <= cutoff_date}

\* the possible failures of the database: none (0), or the delete on the
\* table of that rank raises
DeleteFailures == 0..Len(HistoryTables)

\* fault: the label history table is not swept
cleanup_history_data_skipping_labels(retention_days, failure) ==
    LET cutoff_date == now - retention_days * DayTicks
        swept == HistoryTableNames \ {"label_history"}
    IN IF cutoff_date < DateMin \/ failure # 0
       THEN /\ cleanup_result' = Raised(IF failure # 0 /\ cutoff_date >= DateMin
                                         THEN "DBAPIError" ELSE "OverflowError")
            /\ UNCHANGED <<history_rows, now>>
       ELSE /\ history_rows' = history_rows \ UNION {old_rows(t, cutoff_date) : t \in swept}
            /\ cleanup_result' =
                  [status |-> 200, success |-> TRUE,
                   deleted_counts |-> [t \in HistoryTableNames |->
                       IF t \in swept THEN Cardinality(old_rows(t, cutoff_date)) ELSE 0],
                   raised |-> ""]
            /\ UNCHANGED now

\* fault: the sweep uses the inclusive comparison
cleanup_history_data_inclusive(retention_days, failure) ==
    LET cutoff_date == now - retention_days * DayTicks
    IN IF cutoff_date < DateMin \/ failure # 0
       THEN /\ cleanup_result' = Raised(IF failure # 0 /\ cutoff_date >= DateMin
                                         THEN "DBAPIError" ELSE "OverflowError")
            /\ UNCHANGED <<history_rows, now>>
       ELSE /\ history_rows' =
                  history_rows \ UNION {old_rows_inclusive(t, cutoff_date) : t \in HistoryTableNames}
            /\ cleanup_result' =
                  [status |-> 200, success |-> TRUE,
                   deleted_counts |-> [t \in HistoryTableNames |->
                                          Cardinality(old_rows_inclusive(t, cutoff_date))],
                   raised |-> ""]
            /\ UNCHANGED now

\* the deletes that ran before the one that raises (all five when none does)
executed_deletes(failure) ==
    IF failure = 0 THEN DOMAIN HistoryTables ELSE 1..(failure - 1)

\* the rows removed inside the transaction of one sweep
swept_rows(cutoff_date, failure) ==
    UNION {old_rows(HistoryTables[i], cutoff_date) : i \in executed_deletes(failure)}

\* fault: every bulk delete commits on its own, so the deletes that ran before
\* a failing one stay
cleanup_history_data_committing_each(retention_days, failure) ==
    LET cutoff_date == now - retention_days * DayTicks
    IN IF cutoff_date < DateMin
       THEN /\ cleanup_result' = Raised("OverflowError")
            /\ UNCHANGED <<history_rows, now>>
       ELSE IF failure # 0
       THEN /\ history_rows' = history_rows \ swept_rows(cutoff_date, failure)
            /\ cleanup_result' = Raised("DBAPIError")
            /\ UNCHANGED now
       ELSE /\ history_rows' = history_rows \ swept_rows(cutoff_date, failure)
            /\ cleanup_result' =
                  [status |-> 200, success |-> TRUE,
                   deleted_counts |-> [t \in HistoryTableNames |->
                                          Cardinality(old_rows(t, cutoff_date))],
                   raised |-> ""]
            /\ UNCHANGED now

\* cleanup_history_data: the cutoff is computed (OverflowError when it cannot
\* be represented), the five bulk deletes run one after the other in the
\* transaction of the session and the one db.commit() after the last of them
\* ends it; a delete that raises is never followed by the commit, so the
\* transaction is discarded with the session, nothing is removed and the
\* request ends in an error
cleanup_history_data(retention_days, failure) ==
    LET cutoff_date == now - retention_days * DayTicks
    IN IF cutoff_date < DateMin
       THEN /\ cleanup_result' = Raised("OverflowError")
            /\ UNCHANGED <<history_rows, now>>
       ELSE IF failure # 0
       THEN /\ cleanup_result' = Raised("DBAPIError")
            /\ UNCHANGED <<history_rows, now>>
       ELSE /\ history_rows' = history_rows \ swept_rows(cutoff_date, failure)
            /\ cleanup_result' =
                  [status |-> 200, success |-> TRUE,
                   deleted_counts |-> [t \in HistoryTableNames |->
                                          Cardinality(old_rows(t, cutoff_date))],
                   raised |-> ""]
            /\ UNCHANGED now

\* POST /cleanup-history
run_history_cleanup(api_key, retention_days, failure) ==
    IF api_key # SECRET_KEY
    THEN /\ cleanup_result' = [status |-> 200, success |-> FALSE, deleted_counts |-> <<>>, raised |-> ""]
         /\ UNCHANGED <<history_rows, now>>
    ELSE cleanup_history_data(retention_days, failure)

HistoryInit ==
    /\ teams = <<>>
    /\ next_team_id = 1
    /\ rows = {}
    /\ resp = Idle
    /\ flows = <<>>
    /\ pruned = {}
    /\ function_history = {}
    /\ devices = {}
    /\ next_device_id = 1
    /\ chirpstack = {}
    /\ creating = NoCreation
    /\ seen = FALSE
    /\ history_rows = {}
    /\ now = 0
    /\ cleanup_result = NoResult
    /\ ext_init

\* the answer of the cleanup request has been delivered
cleanup_respond ==
    /\ cleanup_result # NoResult
    /\ cleanup_result' = NoResult
    /\ UNCHANGED <<history_rows, now>>

HistoryNext ==
    \/ /\ cleanup_result = NoResult
       /\ Tick
       /\ UNCHANGED <<teams, next_team_id, rows, resp, flow_vars, device_vars, ext_vars>>
    \/ /\ cleanup_result = NoResult
       /\ \E t \in HistoryTableNames : create_history(t)
       /\ UNCHANGED <<teams, next_team_id, rows, resp, flow_vars, device_vars, ext_vars>>
    \/ /\ cleanup_result = NoResult
       /\ \E k \in ApiKeys, n \in RetentionInputs, f \in DeleteFailures :
             run_history_cleanup(k, n, f)
       /\ UNCHANGED <<teams, next_team_id, rows, resp, flow_vars, device_vars, ext_vars>>
    \/ /\ cleanup_respond
       /\ UNCHANGED <<teams, next_team_id, rows, resp, flow_vars, device_vars, ext_vars>>

HistorySpec == HistoryInit /\ [][HistoryNext]_vars

(***************************************************************************)
(* Accounts: registration, email verification and password reset requests. *)
(***************************************************************************)
Emails == {"a@x", "b@x"}
Usernames == {"u1", "u2"}
\* what user_crud.get_by_email returns when no row matches
NoUser == [username |-> "", email_verified |-> FALSE, mfa_enabled |-> FALSE, mfa_secret |-> 0]
\* the code a caller sends: the one stored in Redis for the email, or another
CodeInputs == {"stored", "other"}
AuthIdle == [op |-> "", status |-> 0, body |-> ""]
AuthResponse(op, answer) == [op |-> op, status |-> answer.status, body |-> answer.body]

get_by_email(email) == IF email \in DOMAIN accounts THEN accounts[email] ELSE NoUser
get_by_username(username) == \E e \in DOMAIN accounts : accounts[e].username = username

\* POST /register
register(email, username, code_stored, email_sent) ==
    IF get_by_email(email) # NoUser
    THEN /\ auth_resp' = [op |-> "register", status |-> 400,
                          body |-> "A user with this email already exists"]
         /\ UNCHANGED <<accounts, email_codes, reset_codes, mfa_sessions, next_secret>>
    ELSE IF get_by_username(username)
    THEN /\ auth_resp' = [op |-> "register", status |-> 400,
                          body |-> "A user with this username already exists"]
         /\ UNCHANGED <<accounts, email_codes, reset_codes, mfa_sessions, next_secret>>
    ELSE /\ accounts' = [e \in DOMAIN accounts \cup {email} |->
                            IF e = email
                            THEN [username |-> username, email_verified |-> FALSE,
                                  mfa_enabled |-> FALSE, mfa_secret |-> 0]
                            ELSE accounts[e]]
         /\ email_codes' = IF code_stored THEN email_codes \cup {email} ELSE email_codes
         /\ auth_resp' =
               IF ~code_stored
               THEN [op |-> "register", status |-> 500,
                     body |-> "Failed to generate verification code"]
               ELSE IF ~email_sent
               THEN [op |-> "register", status |-> 500,
                     body |-> "Failed to send verification email"]
               ELSE [op |-> "register", status |-> 200, body |-> "user"]
         /\ UNCHANGED <<reset_codes, mfa_sessions, next_secret>>

\* a code stored in Redis reaches its time to live
expire_code ==
    /\ \/ \E e \in email_codes : email_codes' = email_codes \ {e} /\ UNCHANGED reset_codes
       \/ \E e \in reset_codes : reset_codes' = reset_codes \ {e} /\ UNCHANGED email_codes
    /\ UNCHANGED <<accounts, mfa_sessions, next_secret, auth_resp>>

\* the answer of POST /request-password-reset for the row found for the email
request_password_reset_response(user, code_stored, email_sent) ==
    IF user = NoUser
    THEN [status |-> 200,
          body |-> "If your email is registered, you will receive a reset code"]
    ELSE IF ~code_stored
    THEN [status |-> 500, body |-> "Failed to generate verification code"]
    ELSE IF ~email_sent
    THEN [status |-> 500, body |-> "Failed to send verification email"]
    ELSE [status |-> 200,
          body |-> "If your email is registered, you will receive a reset code"]

\* POST /request-password-reset
request_password_reset(email, code_stored, email_sent) ==
    /\ auth_resp' = AuthResponse("request_password_reset",
                       request_password_reset_response(get_by_email(email), code_stored,
                                                       email_sent))
    /\ reset_codes' = IF get_by_email(email) # NoUser /\ code_stored
                      THEN reset_codes \cup {email} ELSE reset_codes
    /\ UNCHANGED <<accounts, email_codes, mfa_sessions, next_secret>>

\* redis_client.verify_email_code: the stored code is compared and consumed
verify_email_code(email, code) == email \in email_codes /\ code = "stored"

\* the answer of POST /verify-email for the row found for the email
verify_email_response(user, is_valid) ==
    IF user = NoUser
    THEN [status |-> 400, body |-> "Invalid email address"]
    ELSE IF user.email_verified
    THEN [status |-> 200, body |-> "Email already verified"]
    ELSE IF ~is_valid
    THEN [status |-> 400, body |-> "Invalid or expired verification code"]
    ELSE [status |-> 200, body |-> "Email verified successfully"]

\* POST /verify-email
verify_email(email, code) ==
    LET user == get_by_email(email)
        is_valid == verify_email_code(email, code)
    IN /\ auth_resp' = AuthResponse("verify_email", verify_email_response(user, is_valid))
       /\ IF user # NoUser /\ ~user.email_verified /\ is_valid
          THEN /\ accounts' = [accounts EXCEPT ![email].email_verified = TRUE]
               /\ email_codes' = email_codes \ {email}
          ELSE UNCHANGED <<accounts, email_codes>>
       /\ UNCHANGED <<reset_codes, mfa_sessions, next_secret>>

\* the answer of POST /resend-verification-email for the row found for the email
resend_verification_email_response(user, code_stored, email_sent) ==
    IF user = NoUser
    THEN [status |-> 200,
          body |-> "If your email is registered and not verified, you will receive a verification code"]
    ELSE IF user.email_verified
    THEN [status |-> 200, body |-> "Email is already verified"]
    ELSE IF ~code_stored
    THEN [status |-> 500, body |-> "Failed to generate verification code"]
    ELSE IF ~email_sent
    THEN [status |-> 500, body |-> "Failed to send verification email"]
    ELSE [status |-> 200, body |-> "Verification email has been sent"]

\* POST /resend-verification-email
resend_verification_email(email, code_stored, email_sent) ==
    LET user == get_by_email(email)
    IN /\ auth_resp' = AuthResponse("resend_verification_email",
                          resend_verification_email_response(user, code_stored, email_sent))
       /\ email_codes' = IF user # NoUser /\ ~user.email_verified /\ code_stored
                         THEN email_codes \cup {email} ELSE email_codes
       /\ UNCHANGED <<accounts, reset_codes, mfa_sessions, next_secret>>

\* the answer of the authentication request has been delivered
auth_respond ==
    /\ auth_resp # AuthIdle
    /\ auth_resp' = AuthIdle
    /\ UNCHANGED <<accounts, email_codes, reset_codes, mfa_sessions, next_secret>>

\* everything outside the accounts
non_auth_vars ==
    <<teams, next_team_id, rows, resp, flow_vars, device_vars, history_vars, pending, entry_vars,
      label_vars>>

non_auth_init ==
    /\ teams = <<>>
    /\ next_team_id = 1
    /\ rows = {}
    /\ resp = Idle
    /\ flows = <<>>
    /\ pruned = {}
    /\ function_history = {}
    /\ devices = {}
    /\ next_device_id = 1
    /\ chirpstack = {}
    /\ creating = NoCreation
    /\ seen = FALSE
    /\ history_rows = {}
    /\ now = 0
    /\ cleanup_result = NoResult

AuthInit ==
    /\ non_auth_init
    /\ auth_init
    /\ race_init
    /\ entry_init
    /\ label_init

AuthNext ==
    \/ /\ auth_resp = AuthIdle
       /\ \E e \in Emails, u \in Usernames, c \in BOOLEAN, s \in BOOLEAN : register(e, u, c, s)
       /\ UNCHANGED non_auth_vars
    \/ /\ auth_resp = AuthIdle
       /\ expire_code
       /\ UNCHANGED non_auth_vars
    \/ /\ auth_resp = AuthIdle
       /\ \E e \in Emails, c \in BOOLEAN, s \in BOOLEAN : request_password_reset(e, c, s)
       /\ UNCHANGED non_auth_vars
    \/ /\ auth_resp = AuthIdle
       /\ \E e \in Emails, c \in CodeInputs : verify_email(e, c)
       /\ UNCHANGED non_auth_vars
    \/ /\ auth_resp = AuthIdle
       /\ \E e \in Emails, c \in BOOLEAN, s \in BOOLEAN : resend_verification_email(e, c, s)
       /\ UNCHANGED non_auth_vars
    \/ /\ auth_respond
       /\ UNCHANGED non_auth_vars

AuthSpec == AuthInit /\ [][AuthNext]_vars

(***************************************************************************)
(* Concurrent requests on one team: every handler reads and checks, and     *)
(* later writes and commits; requests of other sessions may run in between. *)
(***************************************************************************)
MaxPending == 2
RaceKinds == {"flow", "device"}
RaceTeam == 1

Request(op, current_user, team_id, user_id, kind, id, name) ==
    [op |-> op, actor |-> current_user, team_id |-> team_id, user_id |-> user_id,
     kind |-> kind, id |-> id, name |-> name]

\* the request passed its checks and goes on to its write
proceed(request) ==
    /\ Cardinality(pending) < MaxPending
    /\ request \notin pending
    /\ pending' = pending \cup {request}
    /\ UNCHANGED <<teams, next_team_id, rows, resp>>

\* the request is refused by one of its checks
refuse(op, current_user, status) ==
    /\ resp' = Response(op, current_user, status)
    /\ UNCHANGED <<teams, next_team_id, rows, pending>>

\* remove_team_member up to the call of remove_user_from_team
remove_team_member_checks(current_user, team_id, user_id) ==
    IF ~get_team(team_id) THEN refuse("remove_team_member", current_user, 404)
    ELSE IF check_team_membership(current_user, team_id) # 200
    THEN refuse("remove_team_member", current_user, 403)
    ELSE IF Cardinality(get_team_users(team_id)) <= 1
    THEN refuse("remove_team_member", current_user, 400)
    ELSE IF user_id \notin Users THEN refuse("remove_team_member", current_user, 404)
    ELSE proceed(Request("remove_team_member", current_user, team_id, user_id, "", 0, ""))

\* fault: the member count is read again, under a lock, when the row is removed
remove_user_from_team_recounting(request) ==
    /\ request.op = "remove_team_member"
    /\ pending' = pending \ {request}
    /\ IF ~get_team(request.team_id) \/ Cardinality(get_team_users(request.team_id)) <= 1
       THEN /\ resp' = Response("remove_team_member", request.actor, 400)
            /\ UNCHANGED <<teams, next_team_id, rows>>
       ELSE /\ teams' = [teams EXCEPT ![request.team_id].users = @ \ {request.user_id}]
            /\ resp' = Response("remove_team_member", request.actor, 204)
            /\ UNCHANGED <<next_team_id, rows>>

\* remove_user_from_team and the answer of remove_team_member
remove_user_from_team(request) ==
    /\ request.op = "remove_team_member"
    /\ pending' = pending \ {request}
    /\ IF ~get_team(request.team_id)
       THEN /\ resp' = Response("remove_team_member", request.actor, 404)
            /\ UNCHANGED <<teams, next_team_id, rows>>
       ELSE /\ teams' = [teams EXCEPT ![request.team_id].users = @ \ {request.user_id}]
            /\ resp' = Response("remove_team_member", request.actor, 204)
            /\ UNCHANGED <<next_team_id, rows>>

\* delete_team up to the call of crud.delete_team
delete_team_checks(current_user, team_id) ==
    IF ~get_team(team_id) THEN refuse("delete_team", current_user, 404)
    ELSE IF ~is_superuser(current_user) THEN refuse("delete_team", current_user, 403)
    ELSE IF check_team_membership(current_user, team_id) # 200
    THEN refuse("delete_team", current_user, 403)
    ELSE IF has_team_resources(team_id) THEN refuse("delete_team", current_user, 400)
    ELSE proceed(Request("delete_team", current_user, team_id, 0, "", 0, ""))

\* fault: the resource gate is evaluated again, under a lock, when the team
\* row is deleted
crud_delete_team_rechecking(request) ==
    /\ request.op = "delete_team"
    /\ pending' = pending \ {request}
    /\ IF ~get_team(request.team_id)
       THEN /\ resp' = Response("delete_team", request.actor, 500)
            /\ UNCHANGED <<teams, next_team_id, rows>>
       ELSE IF has_team_resources(request.team_id)
               \/ \E q \in pending : q.op \in {"create", "update"} /\ q.team_id = request.team_id
       THEN /\ resp' = Response("delete_team", request.actor, 400)
            /\ UNCHANGED <<teams, next_team_id, rows>>
       ELSE /\ teams' = crud_delete_team(request.team_id)
            /\ resp' = Response("delete_team", request.actor, 200)
            /\ UNCHANGED <<next_team_id, rows>>

\* crud.delete_team and the answer of delete_team; deleting a row that another
\* session has deleted fails the flush
crud_delete_team_commit(request) ==
    /\ request.op = "delete_team"
    /\ pending' = pending \ {request}
    /\ IF ~get_team(request.team_id)
       THEN /\ resp' = Response("delete_team", request.actor, 500)
            /\ UNCHANGED <<teams, next_team_id, rows>>
       ELSE /\ teams' = crud_delete_team(request.team_id)
            /\ resp' = Response("delete_team", request.actor, 200)
            /\ UNCHANGED <<next_team_id, rows>>

\* create_flow, create_device: up to the call of crud.<kind>.create_<kind>
create_resource_checks(current_user, kind, team_id, name) ==
    IF get_row_by_name(kind, name) THEN refuse("create", current_user, 400)
    ELSE IF Truthy(team_id) /\ check_team_membership(current_user, team_id) # 200
    THEN refuse("create", current_user, 403)
    ELSE proceed(Request("create", current_user, team_id, 0, kind, 0, name))

\* crud.<kind>.create_<kind> and the answer; the unique index on the name
\* fails the commit when another session stored the name in between
crud_create_commit(request) ==
    /\ request.op = "create"
    /\ pending' = pending \ {request}
    /\ IF get_row_by_name(request.kind, request.name)
       THEN /\ resp' = Response("create", request.actor, 500)
            /\ UNCHANGED <<teams, next_team_id, rows>>
       ELSE /\ Cardinality(CreatedRows) < MaxRows
            /\ rows' = rows \cup
                  {IF Truthy(request.team_id)
                   THEN crud_create(request.kind, request.name, None, TEAM, request.team_id)
                   ELSE crud_create(request.kind, request.name, request.actor, USER, None)}
            /\ resp' = Response("create", request.actor, 200)
            /\ UNCHANGED <<teams, next_team_id>>

\* update_flow, update_device with a team_id: up to the transfer of ownership
update_resource_checks(current_user, kind, id, team_id) ==
    LET perm == check_resource_permissions(current_user, get_row(kind, id), "update")
    IN IF perm # 200 THEN refuse("update", current_user, perm)
       ELSE IF Truthy(team_id) /\ check_team_membership(current_user, team_id) # 200
       THEN refuse("update", current_user, 403)
       ELSE proceed(Request("update", current_user, team_id, 0, kind, id, ""))

\* the transfer of ownership, crud.<kind>.update_<kind> and the answer
crud_update_commit(request) ==
    LET row == get_row(request.kind, request.id)
        moved == IF Truthy(request.team_id)
                 THEN [row EXCEPT !.owner_id = request.team_id, !.owner_type = TEAM]
                 ELSE row
    IN /\ request.op = "update"
       /\ pending' = pending \ {request}
       /\ IF row = NoRow
          THEN /\ resp' = Response("update", request.actor, 500)
               /\ UNCHANGED <<teams, next_team_id, rows>>
          ELSE /\ rows' = (rows \ {row}) \cup {crud_update(moved, Unset)}
               /\ resp' = Response("update", request.actor, 200)
               /\ UNCHANGED <<teams, next_team_id>>

\* everything the concurrent requests leave alone
non_race_vars == <<flow_vars, device_vars, history_vars, auth_vars, entry_vars, label_vars>>

RaceInit ==
    /\ teams = (RaceTeam :> [name |-> "a", users |-> {1, 2}])
    /\ next_team_id = 2
    /\ rows = {}
    /\ resp = Idle
    /\ flows = <<>>
    /\ pruned = {}
    /\ function_history = {}
    /\ devices = {}
    /\ next_device_id = 1
    /\ chirpstack = {}
    /\ creating = NoCreation
    /\ seen = FALSE
    /\ history_rows = {}
    /\ now = 0
    /\ cleanup_result = NoResult
    /\ auth_init
    /\ race_init
    /\ entry_init
    /\ label_init

RaceNext ==
    \/ /\ resp = Idle
       /\ \E u \in Users, m \in Users : remove_team_member_checks(u, RaceTeam, m)
       /\ UNCHANGED non_race_vars
    \/ /\ resp = Idle
       /\ \E q \in pending : remove_user_from_team(q)
       /\ UNCHANGED non_race_vars
    \/ /\ resp = Idle
       /\ \E u \in Users : delete_team_checks(u, RaceTeam)
       /\ UNCHANGED non_race_vars
    \/ /\ resp = Idle
       /\ \E q \in pending : crud_delete_team_commit(q)
       /\ UNCHANGED non_race_vars
    \/ /\ resp = Idle
       /\ \E u \in Users, k \in RaceKinds, t \in {None, RaceTeam}, n \in ResNames :
             create_resource_checks(u, k, t, n)
       /\ UNCHANGED non_race_vars
    \/ /\ resp = Idle
       /\ \E q \in pending : crud_create_commit(q)
       /\ UNCHANGED non_race_vars
    \/ /\ resp = Idle
       /\ \E u \in Users, k \in RaceKinds, i \in RowIdInputs, t \in {None, RaceTeam} :
             update_resource_checks(u, k, i, t)
       /\ UNCHANGED non_race_vars
    \/ /\ resp = Idle
       /\ \E q \in pending : crud_update_commit(q)
       /\ UNCHANGED non_race_vars
    \/ /\ resp # Idle
       /\ resp' = Idle
       /\ UNCHANGED <<teams, next_team_id, rows, pending, non_race_vars>>

RaceSpec == RaceInit /\ [][RaceNext]_vars

(***************************************************************************)
(* History entries read by id: GET /<kind>s/{id}/history/{history_id}.      *)
(***************************************************************************)
MaxEntries == 2
EntryIds == 1..MaxEntries
NoEntry == [kind |-> "", id |-> 0, resource_id |-> 0]
\* the two resources of one type stored from the start
SeedIds == {SeedId, SeedId + 1}

\* create_<kind>_history: an entry of an existing resource is committed
create_history_entry(kind, resource_id) ==
    /\ get_row(kind, resource_id) # NoRow
    /\ Cardinality(entries) < MaxEntries
    /\ LET id == CHOOSE i \in EntryIds : ~\E e \in entries : e.kind = kind /\ e.id = i
       IN entries' = entries \cup {[kind |-> kind, id |-> id, resource_id |-> resource_id]}
    /\ UNCHANGED <<teams, next_team_id, rows, resp, returned>>

\* get_<kind>_history_by_id: the entry with that primary key, whatever its resource
get_history_by_id(kind, history_id) ==
    IF \E e \in entries : e.kind = kind /\ e.id = history_id
    THEN CHOOSE e \in entries : e.kind = kind /\ e.id = history_id
    ELSE NoEntry

\* read_flow_history_by_id, read_integration_history_by_id,
\* read_label_history_by_id: the entry must belong to the resource of the path.
\* read_function_history_by_id returns what the lookup returned; None does not
\* fit the response model and ends in a server error
read_history_by_id(current_user, kind, resource_id, history_id) ==
    LET perm == check_resource_permissions(current_user, get_row(kind, resource_id), "access")
        history_entry == get_history_by_id(kind, history_id)
    IN /\ UNCHANGED <<teams, next_team_id, rows, entries>>
       /\ IF perm # 200
          THEN /\ resp' = Response("read_history", current_user, perm)
               /\ returned' = NoEntry
          ELSE IF kind = "function"
          THEN /\ resp' = Response("read_history", current_user,
                                   IF history_entry = NoEntry THEN 500 ELSE 200)
               /\ returned' = history_entry
          ELSE IF history_entry = NoEntry
          THEN /\ resp' = Response("read_history", current_user, 404)
               /\ returned' = NoEntry
          ELSE IF history_entry.resource_id # resource_id
          THEN /\ resp' = Response("read_history", current_user, 404)
               /\ returned' = NoEntry
          ELSE /\ resp' = Response("read_history", current_user, 200)
               /\ returned' = history_entry

non_entry_vars == <<flow_vars, device_vars, history_vars, auth_vars, pending, label_vars>>

EntryInit ==
    /\ teams = (1 :> [name |-> "a", users |-> {2}])
    /\ next_team_id = 2
    /\ \E k \in NamedKinds :
          rows = {[kind |-> k, id |-> SeedId, name |-> "a", ptype |-> "",
                   owner_id |-> 1, owner_type |-> USER],
                  [kind |-> k, id |-> SeedId + 1, name |-> "b", ptype |-> "",
                   owner_id |-> 1, owner_type |-> TEAM]}
    /\ resp = Idle
    /\ flows = <<>>
    /\ pruned = {}
    /\ function_history = {}
    /\ devices = {}
    /\ next_device_id = 1
    /\ chirpstack = {}
    /\ creating = NoCreation
    /\ seen = FALSE
    /\ history_rows = {}
    /\ now = 0
    /\ cleanup_result = NoResult
    /\ auth_init
    /\ race_init
    /\ entry_init
    /\ label_init

EntryNext ==
    \/ /\ resp = Idle
       /\ \E k \in NamedKinds, r \in SeedIds : create_history_entry(k, r)
       /\ UNCHANGED non_entry_vars
    \/ /\ resp = Idle
       /\ \E u \in Users, k \in NamedKinds, r \in SeedIds \cup {1}, h \in EntryIds :
             read_history_by_id(u, k, r, h)
       /\ UNCHANGED non_entry_vars
    \/ /\ resp # Idle
       /\ resp' = Idle
       /\ returned' = NoEntry
       /\ UNCHANGED <<teams, next_team_id, rows, entries, non_entry_vars>>

EntrySpec == EntryInit /\ [][EntryNext]_vars

(***************************************************************************)
(* Labels and devices: the association written by add_device_to_label, by  *)
(* label_ids of a device and by device_ids of a label, and read through    *)
(* GET /devices/{id}/labels.                                               *)
(***************************************************************************)
\* ids a request may name: the row stored from the start and a created one
AssocIds == {1, SeedId}
\* device_ids / label_ids of a create request (the schema default is [])
IdListInputs == {{}, {SeedId}, {1, SeedId}}

IdsOfKind(kind) == {r.id : r \in Table(kind)}

\* POST /labels/{label_id}/devices/{device_id}
add_device_to_label(current_user, label_id, device_id) ==
    LET label_perm == check_resource_permissions(current_user, get_row("label", label_id),
                                                 "update")
        device_perm == check_resource_permissions(current_user, get_row("device", device_id),
                                                  "access")
    IN /\ UNCHANGED <<teams, next_team_id, rows, returned_labels>>
       /\ IF label_perm # 200
          THEN /\ resp' = Response("add_device_to_label", current_user, label_perm)
               /\ UNCHANGED label_devices
          ELSE IF device_perm # 200
          THEN /\ resp' = Response("add_device_to_label", current_user, device_perm)
               /\ UNCHANGED label_devices
          ELSE /\ label_devices' = label_devices \cup {<<label_id, device_id>>}
               /\ resp' = Response("add_device_to_label", current_user, 200)

\* POST /labels: crud.label.create_label attaches the devices found for device_ids
create_label(current_user, team_id, name, device_ids) ==
    /\ create_resource(current_user, "label", team_id, name)
    /\ label_devices' =
          IF rows' # rows
          THEN label_devices \cup
                  {<<FreshId("label"), d>> : d \in device_ids \cap IdsOfKind("device")}
          ELSE label_devices
    /\ UNCHANGED returned_labels

\* POST /devices: crud.device.create_device attaches the labels found for label_ids
create_device_with_labels(current_user, team_id, name, label_ids) ==
    /\ create_resource(current_user, "device", team_id, name)
    /\ label_devices' =
          IF rows' # rows
          THEN label_devices \cup
                  {<<l, FreshId("device")>> : l \in label_ids \cap IdsOfKind("label")}
          ELSE label_devices
    /\ UNCHANGED returned_labels

\* PUT /labels/{id}: crud.label.update_label replaces the devices of the label
\* by those found for device_ids, when device_ids is given (not None)
update_label(current_user, label_id, given, device_ids) ==
    /\ update_resource(current_user, "label", label_id, None, Unset)
    /\ label_devices' =
          IF resp'.status = 200 /\ given
          THEN {p \in label_devices : p[1] # label_id} \cup
                  {<<label_id, d>> : d \in device_ids \cap IdsOfKind("device")}
          ELSE label_devices
    /\ UNCHANGED returned_labels

\* PUT /devices/{id}: crud.device.update_device replaces the labels of the
\* device by those found for label_ids, when label_ids is given
update_device(current_user, device_id, given, label_ids) ==
    /\ update_resource(current_user, "device", device_id, None, Unset)
    /\ label_devices' =
          IF resp'.status = 200 /\ given
          THEN {p \in label_devices : p[2] # device_id} \cup
                  {<<l, device_id>> : l \in label_ids \cap IdsOfKind("label")}
          ELSE label_devices
    /\ UNCHANGED returned_labels

\* GET /devices/{device_id}/labels
read_device_labels(current_user, device_id) ==
    LET perm == check_resource_permissions(current_user, get_row("device", device_id),
                                           "access")
    IN /\ resp' = Response("read_device_labels", current_user, perm)
       /\ returned_labels' = IF perm = 200
                             THEN {p[1] : p \in {q \in label_devices : q[2] = device_id}}
                             ELSE {}
       /\ UNCHANGED <<teams, next_team_id, rows, label_devices>>

non_label_vars ==
    <<flow_vars, device_vars, history_vars, auth_vars, pending, entry_vars>>

LabelInit ==
    /\ teams = <<>>
    /\ next_team_id = 1
    /\ rows = {[kind |-> "device", id |-> SeedId, name |-> "a", ptype |-> "",
                owner_id |-> 1, owner_type |-> USER],
               [kind |-> "label", id |-> SeedId, name |-> "a", ptype |-> "",
                owner_id |-> 2, owner_type |-> USER]}
    /\ resp = Idle
    /\ flows = <<>>
    /\ pruned = {}
    /\ function_history = {}
    /\ devices = {}
    /\ next_device_id = 1
    /\ chirpstack = {}
    /\ creating = NoCreation
    /\ seen = FALSE
    /\ history_rows = {}
    /\ now = 0
    /\ cleanup_result = NoResult
    /\ auth_init
    /\ race_init
    /\ entry_init
    /\ label_init

LabelNext ==
    \/ /\ resp = Idle
       /\ \E u \in Users, l \in AssocIds, d \in AssocIds : add_device_to_label(u, l, d)
       /\ UNCHANGED non_label_vars
    \/ /\ resp = Idle
       /\ \E u \in Users, n \in ResNames, ds \in IdListInputs : create_label(u, None, n, ds)
       /\ UNCHANGED non_label_vars
    \/ /\ resp = Idle
       /\ \E u \in Users, n \in ResNames, ls \in IdListInputs :
             create_device_with_labels(u, None, n, ls)
       /\ UNCHANGED non_label_vars
    \/ /\ resp = Idle
       /\ \E u \in Users, l \in AssocIds, g \in BOOLEAN, ds \in IdListInputs :
             update_label(u, l, g, ds)
       /\ UNCHANGED non_label_vars
    \/ /\ resp = Idle
       /\ \E u \in Users, d \in AssocIds, g \in BOOLEAN, ls \in IdListInputs :
             update_device(u, d, g, ls)
       /\ UNCHANGED non_label_vars
    \/ /\ resp = Idle
       /\ \E u \in Users, d \in AssocIds : read_device_labels(u, d)
       /\ UNCHANGED non_label_vars
    \/ /\ resp # Idle
       /\ resp' = Idle
       /\ returned_labels' = {}
       /\ UNCHANGED <<teams, next_team_id, rows, label_devices, non_label_vars>>

LabelSpec == LabelInit /\ [][LabelNext]_vars

(***************************************************************************)
(* Providers of one owner: POST /providers for an owner who already has    *)
(* two providers.                                                          *)
(***************************************************************************)
ProviderNames == ResNames \cup {"c"}

ProviderInit ==
    /\ teams = <<>>
    /\ next_team_id = 1
    /\ rows = {[kind |-> "provider", id |-> SeedId, name |-> "a", ptype |-> "chirpstack",
                owner_id |-> 1, owner_type |-> USER],
               [kind |-> "provider", id |-> SeedId + 1, name |-> "b", ptype |-> "email",
                owner_id |-> 1, owner_type |-> USER]}
    /\ resp = Idle
    /\ flows = <<>>
    /\ pruned = {}
    /\ function_history = {}
    /\ devices = {}
    /\ next_device_id = 1
    /\ chirpstack = {}
    /\ creating = NoCreation
    /\ seen = FALSE
    /\ history_rows = {}
    /\ now = 0
    /\ cleanup_result = NoResult
    /\ ext_init

ProviderNext ==
    \/ /\ resp = Idle
       /\ \E u \in Users, ot \in OwnerTypes, oi \in Users, n \in ProviderNames,
             pt \in ProviderTypes : create_provider(u, ot, oi, n, pt)
       /\ UNCHANGED aux_vars
    \/ /\ resp = Idle
       /\ \E u \in Users, i \in NameIdInputs \cup {SeedId + 1} : delete_resource(u, "provider", i)
       /\ UNCHANGED aux_vars
    \/ respond

ProviderSpec == ProviderInit /\ [][ProviderNext]_vars

(***************************************************************************)
(* Multi-factor authentication of verified accounts.                       *)
(***************************************************************************)
MaxSecrets == 3

\* a TOTP code is named by the secret it was computed from; 0 is a code
\* computed from no secret of the model
TotpCodes == 0..MaxSecrets
\* pyotp.TOTP(secret).verify(code)
totp_verify(secret, code) == code # 0 /\ code = secret

mfa_unchanged == UNCHANGED <<email_codes, reset_codes>>

\* POST /login with the email of an account
login(email, password_ok) ==
    LET user == get_by_email(email)
    IN /\ mfa_unchanged
       /\ UNCHANGED <<accounts, next_secret>>
       /\ IF user = NoUser \/ ~password_ok
          THEN /\ auth_resp' = [op |-> "login", status |-> 401,
                                body |-> "Incorrect email/username or password"]
               /\ UNCHANGED mfa_sessions
          ELSE IF ~user.email_verified
          THEN /\ auth_resp' = [op |-> "login", status |-> 401, body |-> "Email not verified"]
               /\ UNCHANGED mfa_sessions
          ELSE IF user.mfa_enabled
          THEN /\ mfa_sessions' = mfa_sessions \cup {email}
               /\ auth_resp' = [op |-> "login", status |-> 200, body |-> "mfa_required"]
          ELSE /\ auth_resp' = [op |-> "login", status |-> 200, body |-> "access_token"]
               /\ UNCHANGED mfa_sessions

\* POST /mfa/verify-login with the session opened for that account
verify_mfa_login(email, mfa_code) ==
    LET user == get_by_email(email)
    IN /\ mfa_unchanged
       /\ UNCHANGED <<accounts, next_secret>>
       /\ IF email \notin mfa_sessions
          THEN /\ auth_resp' = [op |-> "verify_mfa_login", status |-> 401,
                                body |-> "Invalid or expired MFA session"]
               /\ UNCHANGED mfa_sessions
          ELSE IF user = NoUser \/ ~user.mfa_enabled \/ user.mfa_secret = 0
          THEN /\ auth_resp' = [op |-> "verify_mfa_login", status |-> 401,
                                body |-> "MFA is not enabled for this user"]
               /\ UNCHANGED mfa_sessions
          ELSE IF ~totp_verify(user.mfa_secret, mfa_code)
          THEN /\ auth_resp' = [op |-> "verify_mfa_login", status |-> 401,
                                body |-> "Invalid MFA code"]
               /\ UNCHANGED mfa_sessions
          ELSE /\ mfa_sessions' = mfa_sessions \ {email}
               /\ auth_resp' = [op |-> "verify_mfa_login", status |-> 200,
                                body |-> "access_token"]

\* POST /mfa/setup: a new random secret is stored for the current user
setup_mfa(current_user) ==
    /\ next_secret <= MaxSecrets
    /\ accounts' = [accounts EXCEPT ![current_user].mfa_secret = next_secret]
    /\ next_secret' = next_secret + 1
    /\ auth_resp' = [op |-> "setup_mfa", status |-> 200, body |-> "secret"]
    /\ mfa_unchanged
    /\ UNCHANGED mfa_sessions

\* POST /mfa/verify
verify_mfa(current_user, code) ==
    /\ mfa_unchanged
    /\ UNCHANGED <<mfa_sessions, next_secret>>
    /\ IF accounts[current_user].mfa_secret = 0
       THEN /\ auth_resp' = [op |-> "verify_mfa", status |-> 400,
                             body |-> "MFA setup not initiated"]
            /\ UNCHANGED accounts
       ELSE IF ~totp_verify(accounts[current_user].mfa_secret, code)
       THEN /\ auth_resp' = [op |-> "verify_mfa", status |-> 400, body |-> "Invalid MFA code"]
            /\ UNCHANGED accounts
       ELSE /\ accounts' = [accounts EXCEPT ![current_user].mfa_enabled = TRUE]
            /\ auth_resp' = [op |-> "verify_mfa", status |-> 200, body |-> "success"]

\* POST /mfa/disable
disable_mfa(current_user, code) ==
    /\ mfa_unchanged
    /\ UNCHANGED <<mfa_sessions, next_secret>>
    /\ IF ~accounts[current_user].mfa_enabled \/ accounts[current_user].mfa_secret = 0
       THEN /\ auth_resp' = [op |-> "disable_mfa", status |-> 400, body |-> "MFA is not enabled"]
            /\ UNCHANGED accounts
       ELSE IF ~totp_verify(accounts[current_user].mfa_secret, code)
       THEN /\ auth_resp' = [op |-> "disable_mfa", status |-> 400, body |-> "Invalid MFA code"]
            /\ UNCHANGED accounts
       ELSE /\ accounts' = [accounts EXCEPT ![current_user].mfa_enabled = FALSE,
                                            ![current_user].mfa_secret = 0]
            /\ auth_resp' = [op |-> "disable_mfa", status |-> 200, body |-> "disabled"]

\* two registered accounts with verified emails and no MFA
MfaInit ==
    /\ non_auth_init
    /\ race_init
    /\ entry_init
    /\ label_init
    /\ accounts = [e \in Emails |->
                     [username |-> IF e = "a@x" THEN "u1" ELSE "u2", email_verified |-> TRUE,
                      mfa_enabled |-> FALSE, mfa_secret |-> 0]]
    /\ email_codes = {}
    /\ reset_codes = {}
    /\ mfa_sessions = {}
    /\ next_secret = 1
    /\ auth_resp = AuthIdle

MfaNext ==
    \/ /\ auth_resp = AuthIdle
       /\ \E e \in Emails, p \in BOOLEAN : login(e, p)
       /\ UNCHANGED non_auth_vars
    \/ /\ auth_resp = AuthIdle
       /\ \E e \in Emails, c \in TotpCodes : verify_mfa_login(e, c)
       /\ UNCHANGED non_auth_vars
    \/ /\ auth_resp = AuthIdle
       /\ \E e \in Emails : setup_mfa(e)
       /\ UNCHANGED non_auth_vars
    \/ /\ auth_resp = AuthIdle
       /\ \E e \in Emails, c \in TotpCodes : verify_mfa(e, c)
       /\ UNCHANGED non_auth_vars
    \/ /\ auth_resp = AuthIdle
       /\ \E e \in Emails, c \in TotpCodes : disable_mfa(e, c)
       /\ UNCHANGED non_auth_vars
    \/ /\ auth_respond
       /\ UNCHANGED non_auth_vars

MfaSpec == MfaInit /\ [][MfaNext]_vars

(***************************************************************************)
(* Properties.                                                             *)
(***************************************************************************)
\* the decision table of the permission enforcer, stated on its own
Decision(actor, resource) ==
    IF resource = NoRow THEN 404
    ELSE IF \/ actor \in SuperUsers
            \/ resource.owner_type = USER /\ resource.owner_id = actor
            \/ /\ resource.owner_type = TEAM
               /\ resource.owner_id \in DOMAIN teams
               /\ actor \in teams[resource.owner_id].users
    THEN 200
    ELSE 403

\* team t owns a row of one of the six owner-carrying tables
OwnsResource(t) == \E r \in rows : r.owner_type = TEAM /\ r.owner_id = t

\* C1: check_resource_permissions answers NotFound for a missing resource
\* (superuser included), allows exactly the superuser, the direct USER owner
\* and the current members of the owning TEAM, and answers Forbidden
\* otherwise, whatever the action name ("access" of the read handlers,
\* "delete" of the delete handlers); what any actor is allowed, a superuser
\* is allowed.
C1_PermissionDecision ==
    [][resp'.op \in {"read", "delete"} =>
         \A k \in Kinds, i \in RowIdInputs :
            /\ read_resource(resp'.actor, k, i) \/ delete_resource(resp'.actor, k, i)
                  => resp'.status = Decision(resp'.actor, get_row(k, i))
            /\ \A u \in Users, s \in SuperUsers, a \in {"access", "update", "delete"} :
                  /\ check_resource_permissions(u, get_row(k, i), a) = Decision(u, get_row(k, i))
                  /\ check_resource_permissions(u, get_row(k, i), a) = 200
                        => check_resource_permissions(s, get_row(k, i), a) = 200]_vars

\* Scenario A: a read of a team's device by a non-member was answered Forbidden
C1_Witness ==
    /\ resp.op = "read"
    /\ resp.status = 403
    /\ \E r \in rows : /\ r.kind = "device"
                       /\ r.owner_type = TEAM
                       /\ r.owner_id \in DOMAIN teams
                       /\ resp.actor \notin teams[r.owner_id].users

\* C2: a create on one of the five team_id-parameterised tables that passes
\* the name check stores owner (t, TEAM) when team_id t is given and the
\* actor is a member of t or a superuser, is answered 403 and stores nothing
\* when t is given and the actor is neither, and stores (actor, USER) when
\* t is absent.
C2_CreateOwner ==
    [][resp'.op = "create" =>
         \A k \in TeamIdKinds, t \in {None} \cup TeamIdInputs, n \in ResNames :
            (create_resource(resp'.actor, k, t, n) /\ ~get_row_by_name(k, n)) =>
               LET a == resp'.actor
                   allowed == is_superuser(a) \/ is_user_in_team(t, a)
               IN /\ (t # None /\ ~allowed) => (resp'.status = 403 /\ rows' = rows)
                  /\ (t # None /\ allowed) =>
                        \A r \in rows' \ rows : r.owner_id = t /\ r.owner_type = TEAM
                  /\ t = None =>
                        \A r \in rows' \ rows : r.owner_id = a /\ r.owner_type = USER
                  /\ resp'.status = 200 => rows' # rows]_vars

\* C3: every row's owner exists: a TEAM owner_id is an existing team, a USER
\* owner_id an existing user.
C3_NoDanglingOwner ==
    \A r \in rows :
       /\ r.owner_type = TEAM => r.owner_id \in DOMAIN teams
       /\ r.owner_type = USER => r.owner_id \in Users

\* C4: every existing team has at least one member.
C4_TeamHasMember == \A t \in DOMAIN teams : teams[t].users # {}

\* C5: a delete-team request on a team that owns a resource is refused
\* (Conflict, or Forbidden when the superuser gate stops the actor first)
\* and the team and all rows remain.
C5_TeamDeletionGate ==
    [][resp'.op = "delete_team" =>
         \A t \in TeamPathIds :
            (delete_team(resp'.actor, t) /\ get_team(t) /\ OwnsResource(t)) =>
               /\ resp'.status \in {400, 403}
               /\ teams' = teams
               /\ rows' = rows]_vars

C7_LastMemberGate ==
    [][resp'.op = "remove_team_member" =>
         \A t \in TeamPathIds, i \in UserIdInputs :
            (/\ remove_team_member(resp'.actor, t, i)
             /\ get_team(t)
             /\ Cardinality(teams[t].users) = 1
             /\ check_team_membership(resp'.actor, t) = 200) =>
               (resp'.status = 400 /\ teams' = teams)]_vars

\* a remove-member request on a one-member team was answered 400
C7_Witness ==
    /\ resp.op = "remove_team_member"
    /\ resp.status = 400
    /\ \E t \in DOMAIN teams : Cardinality(teams[t].users) = 1
    /\ \A t \in DOMAIN teams : Cardinality(teams[t].users) >= 1

\* C8 as stated: delete-team by the sole member U of a team that owns no
\* resource succeeds and the team is gone.
C8_SoleMemberDeletes ==
    [][resp'.op = "delete_team" =>
         \A t \in TeamPathIds :
            (/\ delete_team(resp'.actor, t)
             /\ get_team(t)
             /\ teams[t].users = {resp'.actor}
             /\ ~OwnsResource(t)) =>
               (resp'.status = 200 /\ t \notin DOMAIN teams')]_vars

\* C8 amended: delete-team by the sole member U of a team that owns no
\* resource succeeds and the team is gone when U is a superuser; when U is
\* not a superuser it is answered 403 and the team remains.  The last-member
\* gate plays no part.
C8_SoleSuperuserDeletes ==
    [][resp'.op = "delete_team" =>
         \A t \in TeamPathIds :
            (/\ delete_team(resp'.actor, t)
             /\ get_team(t)
             /\ teams[t].users = {resp'.actor}
             /\ ~OwnsResource(t)) =>
               IF is_superuser(resp'.actor)
               THEN resp'.status = 200 /\ t \notin DOMAIN teams'
               ELSE resp'.status = 403 /\ teams' = teams]_vars

\* a superuser's delete-team emptied the teams table (its own one-member
\* team included)
C8_Witness ==
    /\ resp.op = "delete_team"
    /\ resp.status = 200
    /\ DOMAIN teams = {}

\* C9: has_team_resources(t) is true exactly when some row of the six
\* owner-carrying tables has owner (t, TEAM).
C9_HasTeamResources ==
    \A t \in TeamPathIds : has_team_resources(t) = OwnsResource(t)

\* C10: an update with team_id t moves the row to (t, TEAM) when the
\* permission check allows and the actor is a member of t or a superuser
\* (and no unique-name conflict fails the commit); when either check fails
\* the request fails and no row changes.
C10_UpdateTransfer ==
    [][resp'.op = "update" =>
         \A k \in TeamIdKinds, i \in RowIdInputs, t \in TeamIdInputs, n \in ResNames \cup {Unset} :
            update_resource(resp'.actor, k, i, t, n) =>
               LET a == resp'.actor
                   permitted == Decision(a, get_row(k, i)) = 200
                   member == is_superuser(a) \/ is_user_in_team(t, a)
                   clash == n # Unset /\ \E r \in Table(k) : r.id # i /\ r.name = n
               IN /\ (permitted /\ member /\ ~clash) =>
                        /\ resp'.status = 200
                        /\ RowOf(rows', k, i).owner_id = t
                        /\ RowOf(rows', k, i).owner_type = TEAM
                  /\ (~permitted \/ ~member) =>
                        /\ resp'.status # 200
                        /\ rows' = rows]_vars

\* C11: a row whose owner_type is TEAM keeps owner_type TEAM in every step
\* that keeps the row: no create, update, transfer or delete request of any
\* actor returns it to USER ownership.
C11_TeamOwnershipPermanent ==
    [][\A r \in rows :
          r.owner_type = TEAM =>
             \/ RowOf(rows', r.kind, r.id) = NoRow
             \/ RowOf(rows', r.kind, r.id).owner_type = TEAM]_vars

\* an update went through on a provider that was created TEAM-owned
C11_Witness ==
    /\ resp.op = "update_provider"
    /\ resp.status = 200
    /\ \E r \in rows : r.kind = "provider" /\ r.owner_type = TEAM

\* the nodes of a flow that satisfy a test, and their ids
Kept(seq, Test(_)) == SelectSeq(seq, LAMBDA x : ~Test(x))
IdsOf(nodes, Test(_)) == {nodes[i].id : i \in {j \in DOMAIN nodes : Test(nodes[j])}}

\* a flow rewritten as the claim words it, for a given reading of
\* "a node of type function with data.entityId = F.id"
Rewritten(flow, Test(_)) ==
    LET gone == IdsOf(flow.nodes, Test)
    IN [flow EXCEPT
          !.nodes = Kept(flow.nodes, Test),
          !.edges = SelectSeq(flow.edges, LAMBDA e : e.source \notin gone /\ e.target \notin gone)]

EdgesResolve(fs) ==
    \A fl \in DOMAIN fs : \A i \in DOMAIN fs[fl].edges :
       \A end \in {fs[fl].edges[i].source, fs[fl].edges[i].target} :
          \E j \in DOMAIN fs[fl].nodes : fs[fl].nodes[j].id = end

\* C13: when every edge names only present nodes before delete_function(F),
\* this still holds after it, and no flow holds a node of type "function"
\* whose entityId is F.id; in any case (Scenario B) no edge is left at the
\* id of a node that was removed.
C13_PruneKeepsGraphConsistent ==
    [][\A f \in FunctionIdInputs :
          (delete_function(FunctionOwner, f) /\ resp'.status = 200) =>
             /\ EdgesResolve(flows) => EdgesResolve(flows')
             /\ \A fl \in DOMAIN flows' : \A i \in DOMAIN flows'[fl].nodes :
                   ~(/\ flows'[fl].nodes[i].type = "function"
                     /\ flows'[fl].nodes[i].data.entityId \in {PyInt(f), PyStr(DecimalDigits[f])})
             /\ \A fl \in DOMAIN flows :
                   \A i \in DOMAIN flows[fl].nodes, j \in DOMAIN flows'[fl].edges :
                      (\A k \in DOMAIN flows'[fl].nodes : flows'[fl].nodes[k] # flows[fl].nodes[i])
                         => /\ flows'[fl].edges[j].source # flows[fl].nodes[i].id
                            /\ flows'[fl].edges[j].target # flows[fl].nodes[i].id]_vars

\* a delete rewrote flow 1, which still holds a node and an edge, and every
\* edge of every flow names a present node
C13_Witness ==
    /\ resp.op = "delete_function"
    /\ resp.status = 200
    /\ 1 \in pruned
    /\ flows[1].nodes # <<>>
    /\ flows[1].edges # <<>>
    /\ EdgesResolve(flows)

\* C14: pruning again for the same function id right after a delete finds no
\* matching node, reports the flow as not modified and leaves its nodes and
\* edges as the first pruning left them; and for every stored flow and every
\* function id, pruning the pruned flow changes nothing.
C14_PruneIdempotent ==
    [][\A f \in FunctionIdInputs :
          (delete_function(FunctionOwner, f) /\ resp'.status = 200) =>
             \A fl \in DOMAIN flows :
                LET once == prune_function_references(flows[fl], f)
                    left == [flows[fl] EXCEPT !.nodes = once.nodes, !.edges = once.edges]
                    twice == prune_function_references(left, f)
                    again == prune_function_references(flows'[fl], f)
                IN /\ ~twice.modified
                   /\ twice.nodes = once.nodes
                   /\ twice.edges = once.edges
                   /\ ~again.modified
                   /\ again.nodes = flows'[fl].nodes
                   /\ again.edges = flows'[fl].edges]_vars

\* a delete rewrote both flows and a node survived in flow 2
C14_Witness ==
    /\ resp.op = "delete_function"
    /\ resp.status = 200
    /\ pruned = {1, 2}
    /\ flows[2].nodes # <<>>

\* C15: whenever the provider hook raises during device creation (the create
\* fails), the local row is deleted again: after a failed create no local
\* device with that dev_eui exists.
C15_FailedCreateRollsBack ==
    [][(create_device_finish /\ resp'.status = 500) =>
          \A d \in devices' : d.dev_eui # creating.db_device.dev_eui]_vars

\* C16: the row is committed, with no response sent and the network server
\* untouched, before the hook runs; while the creation is pending and the row
\* is there, the creator's read of it succeeds and a create with its dev_eui
\* is refused as a duplicate; and a creation that called the network server
\* ends either provisioned there or with the local row deleted.
C16_CreateNotAtomic ==
    [][/\ (creating = NoCreation /\ creating' # NoCreation) =>
             /\ creating'.db_device \in devices'
             /\ chirpstack' = chirpstack
             /\ resp' = resp
       /\ (creating # NoCreation /\ creating.db_device \in devices) =>
             /\ \A u \in DeviceActors :
                   read_device(u, creating.db_device.id) /\ u = creating.current_user
                      => resp'.status = 200 /\ seen'
             /\ \A u \in DeviceActors, r \in Regions :
                   create_device(u, None, creating.db_device.dev_eui, r)
                      => resp'.status = 400 /\ seen' /\ devices' = devices
       /\ (/\ create_device_finish
           /\ HookProviders(creating.db_device.owner_id, creating.db_device.owner_type) # {}
           /\ creating.db_device.region \in ProfileRegions) =>
             \/ /\ resp'.status = 200
                /\ creating.db_device.dev_eui \in chirpstack'
                /\ devices' = devices
             \/ /\ resp'.status = 500
                /\ creating.db_device \notin devices']_vars

\* another request saw the row of a creation that then ended rolled back
C16_Witness ==
    /\ seen
    /\ creating = NoCreation
    /\ resp = Response("create_device", 1, 500)
    /\ devices = {}
    /\ next_device_id = 2

\* C17: a delete_device request that passes the permission check always
\* removes the local row and succeeds, although the network-server call in
\* its try block fails.
C17_DeleteDeviceAlwaysLocal ==
    [][\A u \in DeviceActors, i \in DeviceIdInputs :
          (/\ delete_device(u, i)
           /\ check_resource_permissions(u, get_device(i), "delete") = 200) =>
             /\ resp'.status = 200
             /\ \A d \in devices' : d.id # i
             /\ devices' = devices \ {get_device(i)}]_vars

\* a device that the network server holds was deleted locally
C17_Witness ==
    /\ resp.op = "delete_device"
    /\ resp.status = 200
    /\ chirpstack # {}
    /\ devices = {}
    /\ creating = NoCreation

\* C18: a create whose dev_eui, upper-cased, is that of an existing device is
\* refused with the duplicate Conflict (400) and creates nothing, whoever
\* owns the existing device and in whatever case the dev_eui is given.
C18_DuplicateDevEui ==
    [][\A u \in DeviceActors, e \in DevEuiInputs, r \in Regions :
          (/\ create_device(u, None, e, r)
           /\ \E d \in devices : d.dev_eui = upper(e)) =>
             /\ resp'.status = 400
             /\ devices' = devices]_vars

\* C19: for flows, functions, integrations and labels, a create whose name
\* is that of an existing row of the same type is refused with the Conflict
\* (400) and inserts nothing, whoever owns the existing row and whatever
\* owner is requested; and no step leaves two rows of one type with one name.
C19_NamesUniquePerType ==
    [][/\ \A u \in Users, k \in NamedKinds, t \in {None, 1}, n \in ResNames :
             (create_resource(u, k, t, n) /\ get_row_by_name(k, n)) =>
                /\ resp'.status = 400
                /\ rows' = rows
       /\ \A r1 \in rows', r2 \in rows' :
             (r1.kind = r2.kind /\ r1.name = r2.name) => r1 = r2]_vars

\* user 2, no member of the team that owns the row named "a", was refused a
\* row of that name while two rows of the type are stored
C19_Witness ==
    /\ resp = Response("create", 2, 400)
    /\ \E r1 \in rows, r2 \in rows :
          /\ r1.kind = r2.kind
          /\ r1.id # r2.id
          /\ r1.owner_type = TEAM
          /\ r2.owner_type = USER

\* C20: a cleanup with retention N run at time now, the database not failing,
\* removes in each of the five history tables exactly the rows with
\* timestamp < now - N days and keeps every row with timestamp >= now - N days
\* (the row at the cutoff included); the deleted_counts it returns give for
\* each table the number of rows it removed.
C20_CleanupRetention ==
    [][\A n \in RetentionInputs :
          run_history_cleanup(SECRET_KEY, n, 0) =>
             LET cutoff == now - n * DayTicks
             IN /\ \A r \in history_rows : (r \in history_rows') <=> (r.timestamp >= cutoff)
                /\ history_rows' \subseteq history_rows
                /\ cleanup_result'.status = 200 =>
                      /\ cleanup_result'.success
                      /\ \A t \in HistoryTableNames :
                            cleanup_result'.deleted_counts[t] =
                               Cardinality({r \in history_rows :
                                               r.table = t /\ r \notin history_rows'})
      ]_vars

\* a sweep with one day of retention removed one device history row and one
\* label history row and kept the device history row stamped exactly one day
\* before the sweep
C20_Witness ==
    /\ cleanup_result.status = 200
    /\ cleanup_result.success
    /\ cleanup_result.deleted_counts["device_history"] = 1
    /\ cleanup_result.deleted_counts["label_history"] = 1
    /\ cleanup_result.deleted_counts["flow_history"] = 0
    /\ \E r \in history_rows : r.table = "device_history" /\ r.timestamp = now - DayTicks

\* C21 (as stated): when the delete on one table fails, the deletes already
\* performed on the tables swept before it stay committed.
C21_DeletesCommitIndependently ==
    [][\A n \in RetentionInputs, f \in DeleteFailures \ {0} :
          (run_history_cleanup(SECRET_KEY, n, f) /\ now - n * DayTicks >= DateMin) =>
             history_rows' = history_rows \ swept_rows(now - n * DayTicks, f)
      ]_vars

\* C21 (amended): the five deletes of a cleanup belong to one transaction
\* committed once after the last of them; when the delete on one table fails
\* the request ends in an error and no row of any history table is removed.
C21_CleanupIsOneTransaction ==
    [][\A n \in RetentionInputs, f \in DeleteFailures \ {0} :
          (run_history_cleanup(SECRET_KEY, n, f) /\ now - n * DayTicks >= DateMin) =>
             /\ history_rows' = history_rows
             /\ cleanup_result'.status = 500
      ]_vars

\* a cleanup failed in the database while the device history, the first table
\* swept, held a row older than one day, and that row is still stored
C21_Witness ==
    /\ cleanup_result.raised = "DBAPIError"
    /\ \E r \in history_rows : r.table = "device_history" /\ r.timestamp < now - DayTicks
    /\ \E r \in history_rows : r.table = "label_history"

\* C22: the answer (status and body) of request-password-reset, verify-email
\* and resend-verification-email to a request naming any email is the
\* success-shaped answer given for an email that has no account, so that the
\* caller cannot tell whether the account exists.
C22_UniformResponses ==
    [][/\ \A e \in Emails, c \in BOOLEAN, s \in BOOLEAN :
             /\ request_password_reset(e, c, s) =>
                   /\ auth_resp'.status = 200
                   /\ auth_resp' = AuthResponse("request_password_reset",
                                      request_password_reset_response(NoUser, c, s))
             /\ resend_verification_email(e, c, s) =>
                   /\ auth_resp'.status = 200
                   /\ auth_resp' = AuthResponse("resend_verification_email",
                                      resend_verification_email_response(NoUser, c, s))
       /\ \A e \in Emails, code \in CodeInputs :
             verify_email(e, code) =>
                /\ auth_resp'.status = 200
                /\ auth_resp' = AuthResponse("verify_email",
                                   verify_email_response(NoUser, verify_email_code(e, code)))
      ]_vars

\* C23: under every interleaving of concurrent remove-member requests on a
\* team with two or more members, at least one member remains in the team.
C23_ConcurrentRemovesKeepAMember ==
    \A t \in DOMAIN teams : teams[t].users # {}

\* C24: under every interleaving of a delete-team request with a request of
\* an ordinary member that creates a resource under the team or transfers one
\* to it, either the deletion is refused or the resource is not stored with
\* the team as owner: the write of a resource never stores a deleted team as
\* owner, and the write of the deletion never deletes a team that owns a
\* flow or a device.
C24_DeleteTeamGateUnderConcurrency ==
    [][\A q \in pending :
          /\ ((crud_create_commit(q) \/ crud_update_commit(q))
                /\ ~is_superuser(q.actor) /\ Truthy(q.team_id) /\ resp'.status = 200)
             => get_team(q.team_id)
          /\ (crud_delete_team_commit(q) /\ resp'.status = 200)
             => ~has_team_resources(q.team_id)
      ]_vars

\* C25: a history-by-id request (flow, function, integration, label) returns
\* only an entry that belongs to the resource named in the path, on which the
\* actor passed the permission check; an entry that belongs to another
\* resource is answered with NotFound (404).
C25_HistoryByIdStaysInResource ==
    [][\A u \in Users, k \in NamedKinds, r \in SeedIds \cup {1}, h \in EntryIds :
          read_history_by_id(u, k, r, h) =>
             /\ returned' # NoEntry =>
                   /\ returned'.kind = k
                   /\ returned'.resource_id = r
                   /\ check_resource_permissions(u, get_row(k, returned'.resource_id),
                                                 "access") = 200
             /\ (check_resource_permissions(u, get_row(k, r), "access") = 200
                   /\ get_history_by_id(k, h) # NoEntry
                   /\ get_history_by_id(k, h).resource_id # r)
                => resp'.status = 404
      ]_vars

\* C26: a device-label association is created only by an actor who has
\* permission on both the label and the device, through add_device_to_label
\* as through label_ids and device_ids of create and update requests, and
\* GET /devices/{id}/labels returns no label that check would deny the actor.
C26_AssociationNeedsBothPermissions ==
    [][/\ \A p \in label_devices' \ label_devices :
             /\ check_resource_permissions(resp'.actor, RowOf(rows', "label", p[1]),
                                           "update") = 200
             /\ check_resource_permissions(resp'.actor, RowOf(rows', "device", p[2]),
                                           "access") = 200
       /\ \A l \in returned_labels' :
             check_resource_permissions(resp'.actor, get_row("label", l), "access") = 200
      ]_vars

\* C27: after a delete_device that passes the permission check, the network
\* server answering normally, the network server no longer holds a device
\* with the dev_eui of the deleted device.
C27_DeleteDeviceRemovesRemote ==
    [][\A u \in DeviceActors, i \in DeviceIdInputs :
          (/\ delete_device(u, i)
           /\ check_resource_permissions(u, get_device(i), "delete") = 200) =>
             get_device(i).dev_eui \notin chirpstack']_vars

\* C28: delete_function of an existing function by a permitted actor always
\* completes and removes the function, whatever nodes and edges the flows
\* hold that the flow schema accepts.
C28_StoredFlowsNeverFailDelete ==
    [][\A f \in FunctionIdInputs :
          (/\ delete_function(FunctionOwner, f)
           /\ check_resource_permissions(FunctionOwner, get_row("function", f),
                                         "delete") = 200) =>
             /\ resp'.status = 200
             /\ get_row("function", f) \notin rows']_vars

\* C29: a create_provider whose type or name matches any existing provider
\* of the owner is rejected with 400 and stores nothing, however many
\* providers the owner has; so each owner keeps at most one provider of each
\* type and no two providers of one name.
C29_OneProviderPerTypeAndName ==
    [][/\ \A u \in Users, ot \in OwnerTypes, oi \in Users, n \in ProviderNames,
             pt \in ProviderTypes :
             (/\ create_provider(u, ot, oi, n, pt)
              /\ \E p \in Table("provider") :
                    /\ p.owner_id = oi
                    /\ p.owner_type = ot
                    /\ (p.ptype = pt \/ p.name = n)
              /\ resp'.status # 403) =>
                /\ resp'.status = 400
                /\ rows' = rows
       /\ \A p1 \in rows', p2 \in rows' :
             (/\ p1.kind = "provider" /\ p2.kind = "provider"
              /\ p1.owner_id = p2.owner_id /\ p1.owner_type = p2.owner_type
              /\ (p1.ptype = p2.ptype \/ p1.name = p2.name)) => p1 = p2
      ]_vars

\* C30: in every reachable state mfa_enabled implies a stored mfa_secret, and
\* no mfa/setup, mfa/verify or mfa/disable request replaces the secret of a
\* user whose MFA is enabled and stays enabled: the secret of an MFA-enabled
\* user is the one that user confirmed with a valid TOTP code.
C30_EnabledSecretIsConfirmed ==
    [][\A e \in Emails :
          /\ accounts'[e].mfa_enabled => accounts'[e].mfa_secret # 0
          /\ (accounts[e].mfa_enabled /\ accounts'[e].mfa_enabled) =>
                accounts'[e].mfa_secret = accounts[e].mfa_secret
      ]_vars

====
